---- MODULE Spec2Model ----
(***************************************************************************)
(* Time-dilation calculator (src/pypy.py): the numeric core                *)
(* (time_dilation_factor, time_dilation, the distance conversions, the two *)
(* formatters) and the calculate handler of TimeDilationCalculator.        *)
(*                                                                         *)
(* Numbers.  A natural number is a little-endian sequence of base-10^4     *)
(* limbs (<<>> is 0), so that values beyond the machine integers of TLC    *)
(* are carried exactly.  A Decimal is [sign, coef, exp] as in              *)
(* decimal.Decimal.as_tuple(), every operation rounding to `prec`          *)
(* significant digits, half-even, as the decimal context does.  A float is *)
(* a binary64: [m, e] standing for m * 2^e with m < 2^53, every operation  *)
(* correctly rounded.                                                      *)
(***************************************************************************)
EXTENDS Integers, Sequences, FiniteSets, TLC

(***************************************************************************)
(* The state: the widgets of TimeDilationCalculator, and a call of a       *)
(* module function made from outside the form                              *)
(***************************************************************************)
VARIABLES
  velocity_var,       \* the text of the velocity entry
  measurement_var,    \* "Time" or "Distance"
  time_var,           \* the text of the magnitude entry (years, or a distance)
  distance_unit_var,  \* the selected distance unit, by its full text
  unit_var,           \* the selected unit of c
  measurement_label,  \* the label of the magnitude entry
  results_text,       \* the results area
  status_var,         \* the status line
  progress_var,       \* the progress bar
  run,                \* of the latest calculate: the calls it made, the progress
                      \* values it set in order, and its locals
  fn, args, ret       \* a module function applied on its own: which, to what,
                      \* and what it returned

form == <<velocity_var, measurement_var, time_var, distance_unit_var, unit_var,
          measurement_label>>
display == <<results_text, status_var, progress_var, run>>
call == <<fn, args, ret>>
vars == <<form, display, call>>

(***************************************************************************)
(* Natural numbers beyond the machine integer                              *)
(***************************************************************************)
BASE == 10 ^ 4

SetMax(S) == CHOOSE x \in S : \A y \in S : y <= x

\* TRUE; testing it makes TLC compute x here, before a recursive call
\* takes it as an argument (an argument is otherwise computed only when it is
\* first used, every pending one nested in the next)
Forced(x) == x = x

\* Call(op, x) applies the operator named op to the arguments x. The larger
\* operators are applied through it, so that an expression that uses one names
\* it instead of containing it
RECURSIVE Call(_, _)

\* a limb sequence without its high zero limbs
BNorm(a) ==
  LET nz == {i \in 1..Len(a) : a[i] # 0}
  IN IF nz = {} THEN <<>> ELSE SubSeq(a, 1, SetMax(nz))

\* a machine integer (0 <= n < 2^31) as limbs
BFromInt(n) ==
  Call("BNorm", <<<<n % BASE, (n \div BASE) % BASE, n \div (BASE * BASE)>>>>)

\* limbs as a machine integer (only for values known to be below 2^31)
BToInt(a) ==
  (IF Len(a) >= 1 THEN a[1] ELSE 0)
  + (IF Len(a) >= 2 THEN a[2] * BASE ELSE 0)
  + (IF Len(a) >= 3 THEN a[3] * BASE * BASE ELSE 0)

BLimb(a, i) == IF i >= 1 /\ i <= Len(a) THEN a[i] ELSE 0

BIsZero(a) == Len(a) = 0

\* -1, 0, 1 as a < b, a = b, a > b
BCmp(a, b) ==
  IF Len(a) # Len(b) THEN (IF Len(a) < Len(b) THEN -1 ELSE 1)
  ELSE LET diff == {i \in 1..Len(a) : a[i] # b[i]}
       IN IF diff = {} THEN 0
          ELSE LET k == SetMax(diff) IN IF a[k] < b[k] THEN -1 ELSE 1

\* the limbs of the number whose limb values are s[1], s[2], ... (any integers,
\* the total not negative): each limb reduced to 0..BASE-1, the excess or the
\* debt carried to the next
RECURSIVE BPropagate(_, _, _, _)
BPropagate(s, i, carry, acc) ==
  IF i > Len(s) /\ carry = 0 THEN acc
  ELSE LET t == (IF i <= Len(s) THEN s[i] ELSE 0) + carry
           acc2 == Append(acc, t % BASE)
           c2 == t \div BASE
       IN IF Forced(acc2) /\ Forced(c2) THEN BPropagate(s, i + 1, c2, acc2) ELSE <<>>

\* a + b
BAdd(a, b) ==
  LET n == IF Len(a) > Len(b) THEN Len(a) ELSE Len(b)
  IN Call("BPropagate", <<[i \in 1..n |-> BLimb(a, i) + BLimb(b, i)], 1, 0, <<>>>>)

\* a - b for a >= b
BSub(a, b) ==
  Call("BNorm", <<Call("BPropagate", <<[i \in 1..Len(a) |-> a[i] - BLimb(b, i)], 1, 0, <<>>>>)>>)

\* a * BASE^k
BShiftLimbs(a, k) ==
  IF BIsZero(a) \/ k = 0 THEN a ELSE [i \in 1..k |-> 0] \o a

\* a * s for 0 <= s <= BASE
BMulSmall(a, s) ==
  IF s = 0 THEN <<>> ELSE Call("BPropagate", <<[i \in 1..Len(a) |-> a[i] * s], 1, 0, <<>>>>)

\* a * b by columns: a column sum stays below 2^31 for up to 21 limbs
BMul(a, b) ==
  IF BIsZero(a) \/ BIsZero(b) THEN <<>>
  ELSE
    LET n == Len(a) + Len(b) - 1
        SumTo[k \in 1..n, i \in 0..Len(a)] ==
          IF i = 0 THEN 0
          ELSE SumTo[k, i - 1]
               + (IF k - i + 1 >= 1 /\ k - i + 1 <= Len(b)
                  THEN a[i] * b[k - i + 1] ELSE 0)
    IN Call("BPropagate", <<[k \in 1..n |-> SumTo[k, Len(a)]], 1, 0, <<>>>>)

\* a div p for a divisor p of BASE (1, 2, 10, 100, 1000, ...), limb by limb
BDivBy(a, p) ==
  Call("BNorm", <<[i \in 1..Len(a) |-> a[i] \div p + (BLimb(a, i + 1) % p) * (BASE \div p)]>>)

\* the quotient limb q with q * b <= r < (q + 1) * b, found downwards from an estimate
RECURSIVE BFixLimb(_, _, _)
BFixLimb(r, b, q) ==
  IF Call("BCmp", <<BMulSmall(b, q), r>>) <= 0 THEN q ELSE BFixLimb(r, b, q - 1)

\* schoolbook long division of a by b (top limb of b at least BASE / 2), from limb i down
RECURSIVE BLongDiv(_, _, _, _, _)
BLongDiv(a, b, i, r, q) ==
  IF i = 0 THEN <<Call("BNorm", <<q>>), r>>
  ELSE
    LET r1 == Call("BNorm", <<<<a[i]>> \o r>>)
        n == Len(b)
        top == BLimb(r1, n + 1) * BASE + BLimb(r1, n)
        est == top \div b[n]
        qd == Call("BFixLimb", <<r1, b, IF est > BASE - 1 THEN BASE - 1 ELSE est>>)
        r2 == Call("BSub", <<r1, BMulSmall(b, qd)>>)
        q2 == <<qd>> \o q
    IN IF Forced(r2) /\ Forced(q2) THEN BLongDiv(a, b, i - 1, r2, q2) ELSE <<>>

\* <<a div b, a mod b>> for b > 0 (Knuth's algorithm D: b is scaled so that its
\* top limb is at least BASE / 2, which keeps the limb estimate within 2)
BDivMod(a, b) ==
  IF Call("BCmp", <<a, b>>) < 0 THEN <<(<<>>), a>>
  ELSE
    LET f == BASE \div (b[Len(b)] + 1)
        an == BMulSmall(a, f)
        bn == BMulSmall(b, f)
        n == Len(an)
        qr == IF n > 0 /\ Len(bn) > 0 THEN Call("BLongDiv", <<an, bn, n, <<>>, <<>>>>) ELSE <<(<<>>), <<>>>>
        q == qr[1]
    IN <<q, Call("BSub", <<a, Call("BMul", <<q, b>>)>>)>>

Pow10Small(k) == CASE k = 0 -> 1 [] k = 1 -> 10 [] k = 2 -> 100 [] k = 3 -> 1000 [] OTHER -> BASE

\* 10^k
BPow10(k) == BShiftLimbs(<<Pow10Small(k % 4)>>, k \div 4)

\* a * 10^k
BMulPow10(a, k) == BShiftLimbs(BMulSmall(a, Pow10Small(k % 4)), k \div 4)

\* a div 10^k
BDivPow10(a, k) ==
  IF k \div 4 >= Len(a) THEN <<>>
  ELSE Call("BDivBy", <<SubSeq(a, k \div 4 + 1, Len(a)), Pow10Small(k % 4)>>)

\* the number of decimal digits of a (0 for 0)
BNumDigits(a) ==
  IF BIsZero(a) THEN 0
  ELSE LET t == a[Len(a)]
       IN 4 * (Len(a) - 1)
          + (IF t < 10 THEN 1 ELSE IF t < 100 THEN 2 ELSE IF t < 1000 THEN 3 ELSE 4)

\* the decimal digit of a at position k (0 is the units digit)
BDigit(a, k) == (BLimb(a, k \div 4 + 1) \div Pow10Small(k % 4)) % 10

BIsOdd(a) == BLimb(a, 1) % 2 = 1

\* a divided by 10^k and rounded half-even (decimal's ROUND_HALF_EVEN)
BRoundPow10(a, k) ==
  IF k <= 0 THEN a
  ELSE
    LET q == Call("BDivPow10", <<a, k>>)
        r == Call("BSub", <<a, Call("BMulPow10", <<q, k>>)>>)
        half == Call("BMulPow10", <<<<5>>, k - 1>>)
        c == Call("BCmp", <<r, half>>)
    IN IF c > 0 \/ (c = 0 /\ BIsOdd(q)) THEN Call("BAdd", <<q, <<1>>>>) ELSE q

\* 2^k
RECURSIVE BPow2(_)
BPow2(k) ==
  IF k <= 13 THEN <<2 ^ k>>
  ELSE LET h == BPow2(k \div 2)
       IN IF k % 2 = 0 THEN Call("BMul", <<h, h>>) ELSE BMulSmall(Call("BMul", <<h, h>>), 2)

\* the quotient n / d rounded half-even to an integer
BRoundDiv(n, d) ==
  LET qr == Call("BDivMod", <<n, d>>)
      c == Call("BCmp", <<BMulSmall(qr[2], 2), d>>)
  IN IF c > 0 \/ (c = 0 /\ BIsOdd(qr[1])) THEN Call("BAdd", <<qr[1], <<1>>>>) ELSE qr[1]

\* the bit length of a: the k with 2^(k-1) <= a < 2^k (0 for 0), four bits at a time
RECURSIVE BBitLenFrom(_, _)
BBitLenFrom(a, k) ==
  IF Len(a) <= 1
  THEN LET t == BLimb(a, 1)
       IN k + SetMax({j \in 0..14 : j = 0 \/ 2 ^ (j - 1) <= t})
  ELSE LET a2 == Call("BDivBy", <<a, 16>>)
       IN IF Forced(a2) THEN BBitLenFrom(a2, k + 4) ELSE 0

BBitLen(a) == IF BIsZero(a) THEN 0 ELSE Call("BBitLenFrom", <<a, 0>>)

\* the integer square root of a, by Newton's iteration from above
RECURSIVE BSqrtFrom(_, _)
BSqrtFrom(a, x) ==
  LET q == Call("BDivMod", <<a, x>>)[1]
      y == Call("BDivBy", <<Call("BAdd", <<x, q>>), 2>>)
  IN IF Call("BCmp", <<y, x>>) >= 0 THEN x ELSE BSqrtFrom(a, y)

\* the integer square root of a machine integer t, by the same iteration
RECURSIVE ISqrtFrom(_, _)
ISqrtFrom(t, x) ==
  LET y == (x + t \div x) \div 2
  IN IF y >= x THEN x ELSE ISqrtFrom(t, y)

\* the iteration starts from the root of the top one or two limbs, taken one
\* too large and scaled: a value that is not below the root of a
BSqrt(a) ==
  IF BIsZero(a) THEN <<>>
  ELSE LET n == Len(a)
           k == (n - 1) \div 2
           t == IF n - 2 * k = 2 THEN a[n] * BASE + a[n - 1] ELSE a[n]
           x0 == BShiftLimbs(BFromInt(ISqrtFrom(t, BASE) + 1), k)
       IN IF Len(x0) > 0 THEN BSqrtFrom(a, x0) ELSE <<>>

(***************************************************************************)
(* decimal.Decimal under the context of the program                        *)
(*                                                                         *)
(* getcontext().prec is 200 in the source.  The model keeps every rule of  *)
(* the arithmetic and bounds the precision: prec digits, with prec above   *)
(* the 17 significant digits of a binary64, as 200 is.  What the source    *)
(* writes with about prec digits (the near-c literal) is written with      *)
(* prec + 2 digits here.                                                   *)
(***************************************************************************)
prec == 24

\* the default context's Emax: a result whose adjusted exponent exceeds it overflows
Emax == 999999

Exc(name) == [exc |-> name]
IsExc(x) == "exc" \in DOMAIN x

None == [none |-> TRUE]
IsNone(x) == "none" \in DOMAIN x

\* a finite Decimal: (-1)^sign * coef * 10^exp
Dec(s, c, e) == [kind |-> "F", sign |-> s, coef |-> c, exp |-> e]
NaN == [kind |-> "N", sign |-> 0, coef |-> <<>>, exp |-> 0]
IsNaN(d) == d.kind = "N"

\* Decimal(n) for a machine integer n
DecInt(n) == IF n < 0 THEN Dec(1, BFromInt(-n), 0) ELSE Dec(0, BFromInt(n), 0)

DecIsZero(d) == BIsZero(d.coef)

\* len(d._int): the number of digits of the coefficient, 1 for zero
DecLen(d) == IF BIsZero(d.coef) THEN 1 ELSE Call("BNumDigits", <<d.coef>>)

\* Decimal.adjusted(): the exponent of the most significant digit
DecAdjusted(d) == d.exp + DecLen(d) - 1

\* the number of trailing decimal zeros of a > 0, counted up to lim
BTrailingZeros(a, lim) ==
  SetMax({k \in 0..lim : \A j \in 0..(k - 1) : Call("BDigit", <<a, j>>) = 0})

\* rounding to p digits, half-even; Overflow above Emax
DecFixTo(d, p) ==
  LET n == DecLen(d)
  IN IF n <= p
     THEN IF ~DecIsZero(d) /\ DecAdjusted(d) > Emax THEN Exc("Overflow") ELSE d
     ELSE
       LET k == n - p
           c1 == Call("BRoundPow10", <<d.coef, k>>)
           up == Call("BNumDigits", <<c1>>) > p
           c2 == IF up THEN Call("BDivPow10", <<c1, 1>>) ELSE c1
           e2 == IF up THEN d.exp + k + 1 ELSE d.exp + k
       IN IF e2 + p - 1 > Emax THEN Exc("Overflow") ELSE Dec(d.sign, c2, e2)

\* Decimal._fix: round the coefficient to prec digits
DecFix(d) == Call("DecFixTo", <<d, prec>>)

\* Decimal._rescale to an exponent e <= d.exp: the same value, zeros appended
DecPad(d, e) == Dec(d.sign, Call("BMulPow10", <<d.coef, d.exp - e>>), e)

DecNeg(d) == IF IsExc(d) \/ IsNaN(d) THEN d ELSE Dec(1 - d.sign, d.coef, d.exp)

\* Decimal.__abs__: the sign dropped, and the result rounded
DecAbs(d) == IF IsExc(d) \/ IsNaN(d) THEN d ELSE DecFix(Dec(0, d.coef, d.exp))

\* Decimal.__mul__: the exact product, rounded
DecMul(a, b) ==
  IF IsExc(a) THEN a ELSE IF IsExc(b) THEN b
  ELSE IF IsNaN(a) \/ IsNaN(b) THEN NaN
  ELSE DecFix(Dec((a.sign + b.sign) % 2, Call("BMul", <<a.coef, b.coef>>), a.exp + b.exp))

\* Decimal.__pow__ with the exponent 2: the product is rounded to prec + 3
\* digits (the working precision of an integer power: the digits of the
\* exponent and two more), and that to prec digits
DecSquare(a) ==
  IF IsExc(a) \/ IsNaN(a) THEN a
  ELSE IF DecIsZero(a) THEN Dec(0, <<>>, 0)
  ELSE LET w == Call("DecFixTo", <<Dec(0, Call("BMul", <<a.coef, a.coef>>), a.exp + a.exp), prec + 3>>)
       IN IF IsExc(w) THEN w ELSE DecFix(w)

\* Decimal.__truediv__: prec + 1 digits of quotient, the last made sticky when
\* the division leaves a remainder, then rounded; an exact quotient keeps the
\* ideal exponent as far as its trailing zeros allow
DecDiv(a, b) ==
  IF IsExc(a) THEN a ELSE IF IsExc(b) THEN b
  ELSE IF IsNaN(a) \/ IsNaN(b) THEN NaN
  ELSE IF DecIsZero(b)
  THEN (IF DecIsZero(a) THEN Exc("InvalidOperation") ELSE Exc("DivisionByZero"))
  ELSE IF DecIsZero(a) THEN DecFix(Dec((a.sign + b.sign) % 2, <<>>, a.exp - b.exp))
  ELSE
    LET sign == (a.sign + b.sign) % 2
        shift == DecLen(b) - DecLen(a) + prec + 1
        exp == a.exp - b.exp - shift
        qr == IF shift >= 0
              THEN Call("BDivMod", <<Call("BMulPow10", <<a.coef, shift>>), b.coef>>)
              ELSE Call("BDivMod", <<a.coef, Call("BMulPow10", <<b.coef, -shift>>)>>)
        q == qr[1]
        ideal == a.exp - b.exp
    IN IF ~BIsZero(qr[2])
       THEN DecFix(Dec(sign, IF BLimb(q, 1) % 5 = 0 THEN Call("BAdd", <<q, <<1>>>>) ELSE q, exp))
       ELSE IF BIsZero(q) \/ ideal <= exp THEN DecFix(Dec(sign, q, exp))
       ELSE LET z == BTrailingZeros(q, ideal - exp)
            IN DecFix(Dec(sign, Call("BDivPow10", <<q, z>>), exp + z))

\* -1, 0, 1: the exact comparison of two finite Decimals
DecCmpMag(a, b) ==
  IF DecIsZero(a) \/ DecIsZero(b)
  THEN (IF DecIsZero(a) /\ DecIsZero(b) THEN 0 ELSE IF DecIsZero(a) THEN -1 ELSE 1)
  ELSE IF DecAdjusted(a) # DecAdjusted(b)
  THEN (IF DecAdjusted(a) < DecAdjusted(b) THEN -1 ELSE 1)
  ELSE IF a.exp >= b.exp THEN Call("BCmp", <<Call("BMulPow10", <<a.coef, a.exp - b.exp>>), b.coef>>)
  ELSE Call("BCmp", <<a.coef, Call("BMulPow10", <<b.coef, b.exp - a.exp>>)>>)

DecCmp(a, b) ==
  LET sa == IF DecIsZero(a) THEN 0 ELSE a.sign
      sb == IF DecIsZero(b) THEN 0 ELSE b.sign
  IN IF sa # sb THEN (IF sa = 1 THEN -1 ELSE 1)
     ELSE IF sa = 0 THEN Call("DecCmpMag", <<a, b>>) ELSE -Call("DecCmpMag", <<a, b>>)

\* a < b, a <= b, ...: an ordering comparison with a NaN signals InvalidOperation
DecLt(a, b) == IF IsNaN(a) \/ IsNaN(b) THEN Exc("InvalidOperation") ELSE Call("DecCmp", <<a, b>>) < 0
DecLe(a, b) == IF IsNaN(a) \/ IsNaN(b) THEN Exc("InvalidOperation") ELSE Call("DecCmp", <<a, b>>) <= 0
DecGe(a, b) == IF IsNaN(a) \/ IsNaN(b) THEN Exc("InvalidOperation") ELSE Call("DecCmp", <<a, b>>) >= 0
DecGt(a, b) == IF IsNaN(a) \/ IsNaN(b) THEN Exc("InvalidOperation") ELSE Call("DecCmp", <<a, b>>) > 0
\* a == b, a != b never signal
DecEq(a, b) == ~IsNaN(a) /\ ~IsNaN(b) /\ Call("DecCmp", <<a, b>>) = 0

\* the sum of two operands of the same exponent (exp: the exponent of a zero
\* result)
DecAddAligned(tmp, oth, exp) ==
  LET c == Call("BCmp", <<tmp.coef, oth.coef>>)
  IN IF tmp.sign = oth.sign
     THEN DecFix(Dec(tmp.sign, Call("BAdd", <<tmp.coef, oth.coef>>), tmp.exp))
     ELSE IF c = 0 THEN DecFix(Dec(0, <<>>, exp))
     ELSE IF c > 0 THEN DecFix(Dec(tmp.sign, Call("BSub", <<tmp.coef, oth.coef>>), tmp.exp))
     ELSE DecFix(Dec(oth.sign, Call("BSub", <<oth.coef, tmp.coef>>), tmp.exp))

\* the operand of the lower exponent, oth, beside the other, tmp: left as it
\* is, or, when it is too small to reach the rounded result, a sticky 1 below
\* the last digit that can
DecAddOperand(tmp, oth) ==
  LET d == DecLen(tmp) - prec - 2
      e0 == tmp.exp + (IF d < -1 THEN d ELSE -1)
  IN IF DecLen(oth) + oth.exp - 1 < e0 THEN Dec(oth.sign, <<1>>, e0) ELSE oth

\* tmp and oth with the same exponent, added
DecAddPadded(tmp, oth, exp) == Call("DecAddAligned", <<DecPad(tmp, oth.exp), oth, exp>>)

\* Decimal.__add__ of two finite Decimals (_normalize: an operand too small to
\* reach the rounded result is replaced by a sticky 1 below its last digit)
DecAddFinite(a, b) ==
  LET exp == IF a.exp < b.exp THEN a.exp ELSE b.exp
  IN IF DecIsZero(a) /\ DecIsZero(b)
     THEN DecFix(Dec(IF a.sign = 1 /\ b.sign = 1 THEN 1 ELSE 0, <<>>, exp))
     ELSE IF DecIsZero(a)
     THEN LET e1 == IF exp > b.exp - prec - 1 THEN exp ELSE b.exp - prec - 1
          IN DecFix(DecPad(b, e1))
     ELSE IF DecIsZero(b)
     THEN LET e1 == IF exp > a.exp - prec - 1 THEN exp ELSE a.exp - prec - 1
          IN DecFix(DecPad(a, e1))
     ELSE IF a.exp < b.exp THEN Call("DecAddPadded", <<b, Call("DecAddOperand", <<b, a>>), exp>>)
     ELSE Call("DecAddPadded", <<a, Call("DecAddOperand", <<a, b>>), exp>>)

DecAdd(a, b) ==
  IF IsExc(a) THEN a ELSE IF IsExc(b) THEN b
  ELSE IF IsNaN(a) \/ IsNaN(b) THEN NaN
  ELSE Call("DecAddFinite", <<a, b>>)

\* Decimal.__sub__
DecSub(a, b) == Call("DecAdd", <<a, Call("DecNeg", <<b>>)>>)

\* Decimal._divide, behind // and %: [q, r], the quotient
\* truncated towards zero; InvalidOperation when it needs more than prec digits
DecDivide(a, b) ==
  IF IsExc(a) THEN a ELSE IF IsExc(b) THEN b
  ELSE IF IsNaN(a) \/ IsNaN(b) THEN [q |-> NaN, r |-> NaN]
  ELSE IF DecIsZero(b)
  THEN (IF DecIsZero(a) THEN Exc("InvalidOperation") ELSE Exc("DivisionByZero"))
  ELSE
    LET sign == (a.sign + b.sign) % 2
        ideal == IF a.exp < b.exp THEN a.exp ELSE b.exp
        expdiff == DecAdjusted(a) - DecAdjusted(b)
    IN IF DecIsZero(a) \/ expdiff <= -2
       THEN [q |-> Dec(sign, <<>>, 0), r |-> DecPad(a, ideal)]
       ELSE IF expdiff > prec THEN Exc("InvalidOperation")
       ELSE
         LET n1 == IF a.exp >= b.exp THEN Call("BMulPow10", <<a.coef, a.exp - b.exp>>) ELSE a.coef
             n2 == IF a.exp >= b.exp THEN b.coef ELSE Call("BMulPow10", <<b.coef, b.exp - a.exp>>)
             qr == Call("BDivMod", <<n1, n2>>)
         IN IF Call("BNumDigits", <<qr[1]>>) > prec THEN Exc("InvalidOperation")
            ELSE [q |-> Dec(sign, qr[1], 0), r |-> Dec(a.sign, qr[2], ideal)]

\* Decimal.__floordiv__
DecFloorDiv(a, b) == LET d == Call("DecDivide", <<a, b>>) IN IF IsExc(d) THEN d ELSE d.q

\* Decimal.__mod__: the remainder takes the sign of the dividend, and is rounded
DecMod(a, b) ==
  LET d == Call("DecDivide", <<a, b>>)
  IN IF IsExc(d) THEN (IF d = Exc("DivisionByZero") THEN Exc("InvalidOperation") ELSE d)
     ELSE IF IsNaN(d.r) THEN NaN ELSE DecFix(d.r)

(***************************************************************************)
(* float: IEEE 754 binary64, round-to-nearest-even.  A positive float is   *)
(* [fm, fe] for fm * 2^fe with 2^52 <= fm < 2^53; 0.0 is [<<>>, 0].  The   *)
(* values of the program stay far inside the exponent range, so neither    *)
(* subnormals nor overflow are modelled.                                   *)
(***************************************************************************)
Flt(m, e) == [fm |-> m, fe |-> e]
FloatZero == Flt(<<>>, 0)

RECURSIVE BPow5(_)
BPow5(k) ==
  IF k <= 5 THEN <<5 ^ k>>
  ELSE LET h == BPow5(k \div 2)
       IN IF k % 2 = 0 THEN Call("BMul", <<h, h>>) ELSE BMulSmall(Call("BMul", <<h, h>>), 5)

\* the bounds of a binary64 mantissa
TwoTo52 == Call("BPow2", <<52>>)
TwoTo53 == Call("BPow2", <<53>>)

\* n * 2^k
BMulPow2(n, k) == IF k = 0 THEN n ELSE Call("BMul", <<n, Call("BPow2", <<k>>)>>)

\* the float nearest to n / d (n, d > 0), ties to the even mantissa
FloatFromRatio(n, d) ==
  LET e0 == BBitLen(n) - BBitLen(d) - 53
      n0 == IF e0 < 0 THEN BMulPow2(n, -e0) ELSE n
      d0 == IF e0 < 0 THEN d ELSE BMulPow2(d, e0)
      \* n0 / d0 lies in (2^52, 2^54): one more halving when it reaches 2^53
      big == Call("BCmp", <<n0, BMulPow2(d0, 53)>>) >= 0
      e == IF big THEN e0 + 1 ELSE e0
      m == Call("BRoundDiv", <<n0, IF big THEN BMulSmall(d0, 2) ELSE d0>>)
  IN IF Call("BCmp", <<m, TwoTo53>>) = 0 THEN Flt(TwoTo52, e + 1) ELSE Flt(m, e)

\* float(d) for a finite Decimal d > 0 (Decimal.__float__: correctly rounded)
FloatFromDec(d) ==
  IF d.exp >= 0 THEN Call("FloatFromRatio", <<Call("BMulPow10", <<d.coef, d.exp>>), <<1>>>>)
  ELSE Call("FloatFromRatio", <<d.coef, Call("BPow10", <<-d.exp>>)>>)

\* float.as_integer_ratio: the fraction fm / 2^k in lowest terms, as <<n, k>>
RECURSIVE FloatRatio(_, _)
FloatRatio(m, k) ==
  IF k = 0 \/ BIsOdd(m) THEN <<m, k>>
  ELSE LET h == Call("BDivBy", <<m, 2>>) IN IF Forced(h) THEN FloatRatio(h, k - 1) ELSE <<>>

\* Decimal.from_float: the exact value of a float, n * 5^k with exponent -k
FloatToDec(f) ==
  IF BIsZero(f.fm) THEN Dec(0, <<>>, 0)
  ELSE IF f.fe >= 0 THEN Dec(0, BMulPow2(f.fm, f.fe), 0)
  ELSE LET r == Call("FloatRatio", <<f.fm, -f.fe>>)
       IN Dec(0, Call("BMul", <<r[1], Call("BPow5", <<r[2]>>)>>), -r[2])

\* math.sqrt of a float > 0: the 54-bit integer root of fm * 2^(fe + 2k), then
\* its last bit and the remainder decide the rounding
FloatSqrt(f) ==
  LET odd == f.fe % 2 # 0
      m1 == IF odd THEN BMulSmall(f.fm, 2) ELSE f.fm
      e1 == IF odd THEN f.fe - 1 ELSE f.fe
      big == BMulPow2(m1, 54)
      r == Call("BSqrt", <<big>>)
      exact == Call("BCmp", <<Call("BMul", <<r, r>>), big>>) = 0
      h == Call("BDivBy", <<r, 2>>)
      up == BIsOdd(r) /\ (~exact \/ BIsOdd(h))
      m == IF up THEN Call("BAdd", <<h, <<1>>>>) ELSE h
      e == e1 \div 2 - 27 + 1
  IN IF Call("BCmp", <<m, TwoTo53>>) = 0 THEN Flt(TwoTo52, e + 1) ELSE Flt(m, e)

\* 1 / f for a float f > 0
FloatRecip(f) ==
  IF f.fe >= 0 THEN Call("FloatFromRatio", <<<<1>>, BMulPow2(f.fm, f.fe)>>)
  ELSE Call("FloatFromRatio", <<Call("BPow2", <<-f.fe>>), f.fm>>)

\* a - b for finite Decimals a >= b >= 0, exactly (no context rounding)
DecExactSub(a, b) ==
  LET e == IF a.exp < b.exp THEN a.exp ELSE b.exp
  IN Dec(0, Call("BSub", <<Call("BMulPow10", <<a.coef, a.exp - e>>), Call("BMulPow10", <<b.coef, b.exp - e>>)>>), e)

\* a + b for a, b >= 0, exactly
DecExactAdd(a, b) ==
  LET e == IF a.exp < b.exp THEN a.exp ELSE b.exp
  IN Dec(0, Call("BAdd", <<Call("BMulPow10", <<a.coef, a.exp - e>>), Call("BMulPow10", <<b.coef, b.exp - e>>)>>), e)

\* a * b for a, b >= 0, exactly
DecExactMul(a, b) == Dec(0, Call("BMul", <<a.coef, b.coef>>), a.exp + b.exp)

\* half the gap between the float f and its neighbour below (a quarter of a
\* unit in the last place at a power of two) and above, exactly
FloatHalfGaps(f) ==
  [below |-> IF Call("BCmp", <<f.fm, TwoTo52>>) = 0 THEN Call("FloatToDec", <<Flt(<<1>>, f.fe - 2)>>)
             ELSE Call("FloatToDec", <<Flt(<<1>>, f.fe - 1)>>),
   above |-> Call("FloatToDec", <<Flt(<<1>>, f.fe - 1)>>)]

\* whether the Decimal r > 0 converts back to the float f of exact value x: r
\* lies within half the gap on its side, the bound itself reached only for an
\* even mantissa
FloatRoundTrips(r, x, f, gaps) ==
  LET below == Call("DecCmp", <<r, x>>) < 0
      diff == IF below THEN Call("DecExactSub", <<x, r>>) ELSE Call("DecExactSub", <<r, x>>)
      c == Call("DecCmp", <<diff, IF below THEN gaps.below ELSE gaps.above>>)
  IN c < 0 \/ (c = 0 /\ ~BIsOdd(f.fm))

\* the exact value x of a float, rounded half-even to n significant digits
DecRoundDigits(x, n) ==
  LET k == DecLen(x) - n
  IN IF k <= 0 THEN x ELSE Dec(x.sign, Call("BRoundPow10", <<x.coef, k>>), x.exp + k)

\* the n-digit decimal nearest to x that converts back to f: the half-even
\* rounding of x, or its neighbour on the other side when only that one does
\* (just above a power of two, where the gap below is half the gap above)
FloatShortest(x, f, n, gaps) ==
  LET k == DecLen(x) - n
      r == Call("DecRoundDigits", <<x, n>>)
      t == Call("BDivPow10", <<x.coef, k>>)
      o == IF Call("BCmp", <<r.coef, t>>) = 0 THEN Call("BAdd", <<t, <<1>>>>) ELSE t
  IN IF k <= 0 \/ Call("FloatRoundTrips", <<r, x, f, gaps>>) THEN r ELSE Dec(0, o, x.exp + k)

\* Decimal(str(f)) for a float f >= 0: repr gives the shortest digit string
\* that converts back to f, in fixed notation (with ".0" after an integer) when
\* the decimal point falls within -4 < decpt <= 16, with an exponent otherwise
FloatRepr(f) ==
  IF BIsZero(f.fm) THEN Dec(0, <<>>, -1)
  ELSE
    LET x == Call("FloatToDec", <<f>>)
        gaps == Call("FloatHalfGaps", <<f>>)
        ok == {i \in 1..17 : Call("FloatRoundTrips", <<Call("FloatShortest", <<x, f, i, gaps>>), x, f, gaps>>)}
        n == CHOOSE i \in ok : \A j \in ok : i <= j
        r == Call("FloatShortest", <<x, f, n, gaps>>)
        z == BTrailingZeros(r.coef, 17)
        d == Call("BDivPow10", <<r.coef, z>>)
        e == r.exp + z
        decpt == Call("BNumDigits", <<d>>) + e
    IN IF e >= 0 /\ decpt <= 16 THEN Dec(0, Call("BMulPow10", <<d, e + 1>>), -1)
       ELSE Dec(0, d, e)

(***************************************************************************)
(* Text.  What the user types is a sequence of characters, so that reading *)
(* it is modelled; what the program writes is a string.                    *)
(***************************************************************************)
DigitChars == <<"0", "1", "2", "3", "4", "5", "6", "7", "8", "9">>

IsDigitChar(ch) == \E i \in 1..10 : DigitChars[i] = ch

DigitVal(ch) == (CHOOSE i \in 1..10 : DigitChars[i] = ch) - 1

\* the integer written by the digit characters ds, as a bignum
BFromDigits(ds) ==
  LET n == Len(ds)
      dg(k) == IF k >= 1 THEN DigitVal(ds[k]) ELSE 0
  IN Call("BNorm", <<[i \in 1..((n + 3) \div 4) |->
              dg(n - 4 * (i - 1)) + 10 * dg(n - 4 * (i - 1) - 1)
              + 100 * dg(n - 4 * (i - 1) - 2) + 1000 * dg(n - 4 * (i - 1) - 3)]>>)

\* the machine integer written by at most 9 digit characters
IntFromDigits(ds) == Call("BToInt", <<Call("BFromDigits", <<ds>>)>>)

\* the least index i with s[i] in chars, Len(s) + 1 when there is none
FirstIndex(s, chars) ==
  LET hits == {i \in 1..Len(s) : s[i] \in chars}
  IN IF hits = {} THEN Len(s) + 1 ELSE CHOOSE i \in hits : \A j \in hits : i <= j

AllDigits(q) == \A i \in 1..Len(q) : IsDigitChar(q[i])

\* the exponent written by ex, which is empty or e [sign] digits: [exp |-> n],
\* or InvalidOperation
ExponentFromChars(ex) ==
  IF Len(ex) = 0 THEN [exp |-> 0]
  ELSE LET exsigned == Len(ex) >= 2 /\ ex[2] \in {"+", "-"}
           exdigits == SubSeq(ex, IF exsigned THEN 3 ELSE 2, Len(ex))
       IN IF Len(exdigits) < 1 \/ Len(exdigits) > 9 \/ ~AllDigits(exdigits)
          THEN Exc("InvalidOperation")
          ELSE IF ex[2] = "-" THEN [exp |-> -IntFromDigits(exdigits)]
          ELSE [exp |-> IntFromDigits(exdigits)]

\* the Decimal of sign, integer part ip, fraction part fp and exponent e
DecimalFromParts(sign, ip, fp, e) ==
  IF ~AllDigits(ip) \/ ~AllDigits(fp) \/ Len(ip) + Len(fp) < 1 \/ IsExc(e)
  THEN Exc("InvalidOperation")
  ELSE Dec(sign, Call("BFromDigits", <<ip \o fp>>), e.exp - Len(fp))

\* the Decimal of sign, mantissa mant (digits [. digits]) and exponent e
DecimalFromMantissa(sign, mant, e) ==
  LET ppos == FirstIndex(mant, {"."})
  IN Call("DecimalFromParts", <<sign, SubSeq(mant, 1, ppos - 1), SubSeq(mant, ppos + 1, Len(mant)), e>>)

\* the Decimal of sign and body, the string after the sign
DecimalFromBody(sign, body) ==
  IF /\ Len(body) >= 3
     /\ body[1] \in {"N", "n"} /\ body[2] \in {"A", "a"} /\ body[3] \in {"N", "n"}
     /\ AllDigits(SubSeq(body, 4, Len(body)))
  THEN NaN
  ELSE LET epos == FirstIndex(body, {"e", "E"})
       IN Call("DecimalFromMantissa", <<sign, SubSeq(body, 1, epos - 1),
                              Call("ExponentFromChars", <<SubSeq(body, epos, Len(body))>>)>>)

\* Decimal(s) for a string s: [sign] digits [. digits] [e [sign] digits], or
\* [sign] NaN; anything else raises InvalidOperation (ConversionSyntax)
DecimalFromChars(s) ==
  IF Len(s) >= 1 /\ s[1] \in {"+", "-"}
  THEN Call("DecimalFromBody", <<IF s[1] = "-" THEN 1 ELSE 0, SubSeq(s, 2, Len(s))>>)
  ELSE Call("DecimalFromBody", <<0, s>>)

RECURSIVE Zeros(_)
\* "0" * k
Zeros(k) ==
  IF k <= 0 THEN ""
  ELSE IF k >= 10 THEN "0000000000" \o Zeros(k - 10)
  ELSE "0" \o Zeros(k - 1)

\* one limb below the top one: four digits
Pad4(x) == Zeros(IF x < 10 THEN 3 ELSE IF x < 100 THEN 2 ELSE IF x < 1000 THEN 1 ELSE 0)
           \o ToString(x)

RECURSIVE BStrFrom(_, _)
BStrFrom(a, i) == IF i = 0 THEN "" ELSE Call("Pad4", <<a[i]>>) \o BStrFrom(a, i - 1)

\* str(n) for an integer n >= 0
BStr(a) ==
  IF BIsZero(a) THEN "0" ELSE ToString(a[Len(a)]) \o BStrFrom(a, Len(a) - 1)

\* the digits of a, zero-filled on the left to w digits
BStrWidth(a, w) ==
  IF BIsZero(a) THEN Zeros(w) ELSE Zeros(w - Call("BNumDigits", <<a>>)) \o Call("BStr", <<a>>)

\* str(n) for a machine integer
IntStr(n) == IF n < 0 THEN "-" \o ToString(-n) ELSE ToString(n)

\* Decimal.__str__: positional notation when the exponent is at most 0 and the
\* number is not below 1E-6, scientific notation otherwise
DecStr(d) ==
  IF IsNaN(d) THEN "NaN"
  ELSE
    LET n == DecLen(d)
        left == d.exp + n
        dot == IF d.exp <= 0 /\ left > -6 THEN left ELSE 1
        sg == IF d.sign = 1 THEN "-" ELSE ""
        hi == Call("BDivPow10", <<d.coef, n - dot>>)
        lo == Call("BSub", <<d.coef, Call("BMulPow10", <<hi, n - dot>>)>>)
        digits == IF dot <= 0 THEN "0." \o Zeros(-dot) \o Call("BStrWidth", <<d.coef, n>>)
                  ELSE IF dot >= n THEN Call("BStrWidth", <<d.coef, n>>) \o Zeros(dot - n)
                  ELSE Call("BStr", <<hi>>) \o "." \o Call("BStrWidth", <<lo, n - dot>>)
        e == IF left = dot THEN ""
             ELSE "E" \o (IF left - dot >= 0 THEN "+" ELSE "") \o IntStr(left - dot)
    IN sg \o digits \o e

\* f"{d:.{places}f}".rstrip('0').rstrip('.') for a finite Decimal d: d rounded
\* half-even to places decimals, written without the zeros that end the
\* fraction, and without the point when no fraction is left
FixedStripped(d, places) ==
  LET sh == d.exp + places
      N == IF sh >= 0 THEN Call("BMulPow10", <<d.coef, sh>>)
           ELSE IF -sh > DecLen(d) THEN <<>>
           ELSE Call("BRoundPow10", <<d.coef, -sh>>)
      z == IF BIsZero(N) THEN places ELSE BTrailingZeros(N, places)
      f == places - z
      M == Call("BDivPow10", <<N, z>>)
      hi == Call("BDivPow10", <<M, f>>)
      lo == Call("BSub", <<M, Call("BMulPow10", <<hi, f>>)>>)
      sg == IF d.sign = 1 THEN "-" ELSE ""
  IN IF f = 0 THEN sg \o Call("BStr", <<hi>>) ELSE sg \o Call("BStr", <<hi>>) \o "." \o Call("BStrWidth", <<lo, f>>)

(***************************************************************************)
(* The values the program passes around: a Decimal, a float, None, a       *)
(* string; a raised exception is the value Exc(name).                      *)
(***************************************************************************)
Str(chars) == [str |-> chars]
IsStr(x) == "str" \in DOMAIN x
IsDec(x) == "kind" \in DOMAIN x
IsFloat(x) == "fm" \in DOMAIN x

\* float('nan')
FloatNaN == [fnan |-> TRUE]
IsFloatNaN(x) == "fnan" \in DOMAIN x

\* Decimal(str(value)): a Decimal is written with its sign, digits and exponent
\* and read back as it was; a float is read from its repr; "None" is no number
DecimalOfStr(value) ==
  IF IsExc(value) THEN value
  ELSE IF IsNone(value) THEN Exc("InvalidOperation")
  ELSE IF IsStr(value) THEN Call("DecimalFromChars", <<value.str>>)
  ELSE IF IsFloatNaN(value) THEN NaN
  ELSE IF IsFloat(value) THEN Call("FloatRepr", <<value>>)
  ELSE value

(***************************************************************************)
(* Module constants                                                        *)
(***************************************************************************)
C_MS == DecInt(299792458)
C_CMS == Call("DecMul", <<C_MS, DecInt(100)>>)
C_MMS == Call("DecMul", <<C_MS, DecInt(1000)>>)
C_UM == Call("DecMul", <<C_MS, DecInt(1000000)>>)
C_NM == Call("DecMul", <<C_MS, Dec(0, <<1>>, 9)>>)

c_units == <<C_MS, C_CMS, C_MMS, C_UM, C_NM>>

SI_PREFIXES ==
  << [factor |-> Dec(0, <<1>>, 30), prefix |-> "Nonillion"],
     [factor |-> Dec(0, <<1>>, 27), prefix |-> "Octillion"],
     [factor |-> Dec(0, <<1>>, 24), prefix |-> "Septillion"],
     [factor |-> Dec(0, <<1>>, 21), prefix |-> "Sextillion"],
     [factor |-> Dec(0, <<1>>, 18), prefix |-> "Quintillion"],
     [factor |-> Dec(0, <<1>>, 15), prefix |-> "Quadrillion"],
     [factor |-> Dec(0, <<1>>, 12), prefix |-> "Trillion"],
     [factor |-> Dec(0, <<1>>, 9), prefix |-> "Billion"],
     [factor |-> Dec(0, <<1>>, 6), prefix |-> "Million"],
     [factor |-> Dec(0, <<1>>, 3), prefix |-> "Thousand"],
     [factor |-> Dec(0, <<1>>, 0), prefix |-> ""],
     [factor |-> Dec(0, <<1>>, -3), prefix |-> "Milli"],
     [factor |-> Dec(0, <<1>>, -6), prefix |-> "Micro"],
     [factor |-> Dec(0, <<1>>, -9), prefix |-> "Nano"],
     [factor |-> Dec(0, <<1>>, -12), prefix |-> "Pico"],
     [factor |-> Dec(0, <<1>>, -15), prefix |-> "Femto"],
     [factor |-> Dec(0, <<1>>, -18), prefix |-> "Atto"],
     [factor |-> Dec(0, <<1>>, -21), prefix |-> "Zepto"],
     [factor |-> Dec(0, <<1>>, -24), prefix |-> "Yocto"],
     [factor |-> Dec(0, <<1>>, -27), prefix |-> "Ronto"],
     [factor |-> Dec(0, <<1>>, -30), prefix |-> "Quecto"] >>

\* Decimal("9.461e12"), Decimal("5.879e12")
KM_PER_LIGHTYEAR == Dec(0, <<9461>>, 9)
MILES_PER_LIGHTYEAR == Dec(0, <<5879>>, 9)

\* Decimal("31557600") and the other divisors of format_time
SECONDS_PER_YEAR == DecInt(31557600)
SECONDS_PER_MONTH == DecInt(2629800)
SECONDS_PER_DAY == DecInt(86400)
SECONDS_PER_HOUR == DecInt(3600)
SECONDS_PER_MINUTE == DecInt(60)

(***************************************************************************)
(* Module functions                                                        *)
(***************************************************************************)
safe_decimal_convert(value) ==
  LET d == Call("DecimalOfStr", <<value>>)
  IN IF d = Exc("InvalidOperation") THEN None ELSE d

\* the index of the last entry of SI_PREFIXES with a >= factor, 0 without one
PrefixIndexLast(a) ==
  LET hits == {i \in 1..Len(SI_PREFIXES) : Call("DecCmp", <<a, SI_PREFIXES[i].factor>>) >= 0}
  IN IF hits = {} THEN 0 ELSE CHOOSE i \in hits : \A j \in hits : i >= j

\* the index of the first entry of SI_PREFIXES with a >= factor, 0 when the
\* loop ends without one
PrefixIndex(a) ==
  LET hits == {i \in 1..Len(SI_PREFIXES) : Call("DecCmp", <<a, SI_PREFIXES[i].factor>>) >= 0}
  IN IF hits = {} THEN 0 ELSE CHOOSE i \in hits : \A j \in hits : i <= j

\* whether format_large_or_small_number(value) raises: the conversion fails,
\* abs() overflows, or the comparison of a NaN signals
format_large_or_small_number_raises(value) ==
  LET v == Call("DecimalOfStr", <<value>>) IN IsExc(v) \/ IsNaN(v) \/ IsExc(Call("DecAbs", <<v>>))

format_large_or_small_number(value) ==
  LET v == Call("DecimalOfStr", <<value>>)
      a == Call("DecAbs", <<v>>)
      i == Call("PrefixIndex", <<a>>)
      formatted == Call("FixedStripped", <<Call("DecDiv", <<v, SI_PREFIXES[i].factor>>), 50>>)
  IN IF IsExc(v) THEN v
     ELSE IF IsNaN(v) THEN Exc("InvalidOperation")
     ELSE IF IsExc(a) THEN a
     ELSE IF i = 0 THEN Call("FixedStripped", <<v, 100>>)
     ELSE IF SI_PREFIXES[i].prefix = "" THEN formatted
     ELSE formatted \o " " \o SI_PREFIXES[i].prefix

\* the locals of format_time after its divisions
\* format_time with the months taken from the whole number of seconds
format_time_parts_of_whole(seconds) ==
  LET s0 == Call("DecimalOfStr", <<seconds>>)
      years == DecFloorDiv(s0, SECONDS_PER_YEAR)
      s1 == Call("DecMod", <<s0, SECONDS_PER_YEAR>>)
      months == DecFloorDiv(s0, SECONDS_PER_MONTH)
      s2 == Call("DecMod", <<s1, SECONDS_PER_MONTH>>)
      days == DecFloorDiv(s2, SECONDS_PER_DAY)
      s3 == Call("DecMod", <<s2, SECONDS_PER_DAY>>)
      hours == DecFloorDiv(s3, SECONDS_PER_HOUR)
      s4 == Call("DecMod", <<s3, SECONDS_PER_HOUR>>)
      minutes == DecFloorDiv(s4, SECONDS_PER_MINUTE)
      s5 == Call("DecMod", <<s4, SECONDS_PER_MINUTE>>)
  IN [years |-> years, months |-> months, days |-> days, hours |-> hours,
      minutes |-> minutes, seconds |-> s5]

format_time_parts(seconds) ==
  LET s0 == Call("DecimalOfStr", <<seconds>>)
      years == DecFloorDiv(s0, SECONDS_PER_YEAR)
      s1 == Call("DecMod", <<s0, SECONDS_PER_YEAR>>)
      months == DecFloorDiv(s1, SECONDS_PER_MONTH)
      s2 == Call("DecMod", <<s1, SECONDS_PER_MONTH>>)
      days == DecFloorDiv(s2, SECONDS_PER_DAY)
      s3 == Call("DecMod", <<s2, SECONDS_PER_DAY>>)
      hours == DecFloorDiv(s3, SECONDS_PER_HOUR)
      s4 == Call("DecMod", <<s3, SECONDS_PER_HOUR>>)
      minutes == DecFloorDiv(s4, SECONDS_PER_MINUTE)
      s5 == Call("DecMod", <<s4, SECONDS_PER_MINUTE>>)
  IN [years |-> years, months |-> months, days |-> days, hours |-> hours,
      minutes |-> minutes, seconds |-> s5]

\* str(e) for an exception raised by the decimal module
ExcText(e) == "[<class 'decimal." \o e.exc \o "'>]"

\* ", ".join(parts)
RECURSIVE JoinComma(_)
JoinComma(parts) ==
  IF Len(parts) = 0 THEN ""
  ELSE IF Len(parts) = 1 THEN parts[1]
  ELSE parts[1] \o ", " \o JoinComma(Tail(parts))

\* years * 31557600 + months * 2629800 + days * 86400 + hours * 3600
\* + minutes * 60 + seconds for components >= 0, exactly
DurationTotal(p) ==
  LET y == Call("DecExactMul", <<p.years, SECONDS_PER_YEAR>>)
      mo == Call("DecExactMul", <<p.months, SECONDS_PER_MONTH>>)
      d == Call("DecExactMul", <<p.days, SECONDS_PER_DAY>>)
      h == Call("DecExactMul", <<p.hours, SECONDS_PER_HOUR>>)
      mi == Call("DecExactMul", <<p.minutes, SECONDS_PER_MINUTE>>)
  IN Call("DecExactAdd", <<Call("DecExactAdd", <<Call("DecExactAdd", <<y, mo>>),
                                               Call("DecExactAdd", <<d, h>>)>>),
                          Call("DecExactAdd", <<mi, p.seconds>>)>>)

\* 0 <= x <= n
UpTo(x, n) == Call("DecCmp", <<x, DecInt(0)>>) >= 0 /\ Call("DecCmp", <<x, DecInt(n)>>) <= 0

\* years >= 0, months in 0..11, days in 0..30, hours in 0..23, minutes in
\* 0..59 and 0 <= seconds < 60
DurationInRange(p) ==
  /\ Call("DecCmp", <<p.years, DecInt(0)>>) >= 0
  /\ UpTo(p.months, 11)
  /\ UpTo(p.days, 30)
  /\ UpTo(p.hours, 23)
  /\ UpTo(p.minutes, 59)
  /\ Call("DecCmp", <<p.seconds, DecInt(0)>>) >= 0
  /\ Call("DecCmp", <<p.seconds, DecInt(60)>>) < 0

\* format_time whose except clause returns the text of the exception
format_time_unguarded(seconds) ==
  LET p == Call("format_time_parts", <<seconds>>)
      raised == \E k \in DOMAIN p : IsExc(p[k]) \/ IsNaN(p[k])
      part(x, label) == IF Call("DecCmp", <<x, DecInt(0)>>) > 0 THEN <<Call("DecStr", <<x>>) \o " " \o label>>
                        ELSE <<>>
      time_parts ==
        part(p.years, "years") \o part(p.months, "months") \o part(p.days, "days")
        \o part(p.hours, "hours") \o part(p.minutes, "minutes")
        \o (IF Call("DecCmp", <<p.seconds, DecInt(0)>>) # 0
            THEN <<Call("format_large_or_small_number", <<p.seconds>>) \o " seconds">> ELSE <<>>)
  IN IF raised THEN ExcText(Exc("InvalidOperation"))
     ELSE IF time_parts # <<>> THEN JoinComma(time_parts) ELSE "0 seconds"

format_time(seconds) ==
  LET p == Call("format_time_parts", <<seconds>>)
      raised == \E k \in DOMAIN p : IsExc(p[k]) \/ IsNaN(p[k])
      part(x, label) == IF Call("DecCmp", <<x, DecInt(0)>>) > 0 THEN <<Call("DecStr", <<x>>) \o " " \o label>>
                        ELSE <<>>
      time_parts ==
        part(p.years, "years") \o part(p.months, "months") \o part(p.days, "days")
        \o part(p.hours, "hours") \o part(p.minutes, "minutes")
        \o (IF Call("DecCmp", <<p.seconds, DecInt(0)>>) # 0
            THEN <<Call("format_large_or_small_number", <<p.seconds>>) \o " seconds">> ELSE <<>>)
  IN IF raised THEN "Error calculating time"
     ELSE IF time_parts # <<>> THEN JoinComma(time_parts) ELSE "0 seconds"

\* 1 / math.sqrt(abs(x)), and 0.0 at 0
RecipSqrtOfAbs(x) ==
  IF IsNaN(x) THEN FloatNaN
  ELSE IF DecIsZero(x) THEN FloatZero
  ELSE Call("FloatRecip", <<Call("FloatSqrt", <<FloatFromDec(Dec(0, x.coef, x.exp))>>)>>)

\* 1 / math.sqrt(x) for the Decimal x: math.sqrt converts x to a float and
\* raises ValueError below zero; the division raises ZeroDivisionError at 0.0
RecipSqrt(x) ==
  IF IsNaN(x) THEN FloatNaN
  ELSE IF DecIsZero(x) THEN Exc("ZeroDivisionError")
  ELSE IF x.sign = 1 THEN Exc("ValueError")
  ELSE Call("FloatRecip", <<Call("FloatSqrt", <<FloatFromDec(x)>>)>>)

\* time_dilation_factor dividing by the square of c in m/s whatever c is
time_dilation_factor_in_metres(velocity_percentage, c) ==
  LET vp == Call("DecimalOfStr", <<velocity_percentage>>)
      velocity == Call("DecMul", <<Call("DecDiv", <<vp, DecInt(100)>>), c>>)
      radicand == DecSub(DecInt(1), Call("DecDiv", <<Call("DecSquare", <<velocity>>), Call("DecSquare", <<c_units[1]>>)>>))
      gamma == IF IsExc(radicand) THEN radicand ELSE Call("RecipSqrt", <<radicand>>)
  IN IF IsExc(gamma) THEN None ELSE gamma

time_dilation_factor(velocity_percentage, c) ==
  LET vp == Call("DecimalOfStr", <<velocity_percentage>>)
      velocity == Call("DecMul", <<Call("DecDiv", <<vp, DecInt(100)>>), c>>)
      radicand == DecSub(DecInt(1), Call("DecDiv", <<Call("DecSquare", <<velocity>>), Call("DecSquare", <<c>>)>>))
      gamma == IF IsExc(radicand) THEN radicand ELSE Call("RecipSqrt", <<radicand>>)
  IN IF IsExc(gamma) THEN None ELSE gamma

\* time_dilation multiplying by gamma
time_dilation_multiplying(time_earth, velocity_percentage, c) ==
  LET gamma == Call("DecimalOfStr", <<Call("time_dilation_factor", <<velocity_percentage, c>>)>>)
  IN IF IsExc(gamma) THEN gamma
     ELSE IF IsNone(gamma) THEN None
     ELSE Call("DecMul", <<Call("DecimalOfStr", <<time_earth>>), gamma>>)

time_dilation(time_earth, velocity_percentage, c) ==
  LET gamma == Call("DecimalOfStr", <<Call("time_dilation_factor", <<velocity_percentage, c>>)>>)
  IN IF IsExc(gamma) THEN gamma
     ELSE IF IsNone(gamma) THEN None
     ELSE Call("DecDiv", <<Call("DecimalOfStr", <<time_earth>>), gamma>>)

\* the conversion functions without their except clause
ConversionRaised(r) == r

\* the except clause of the conversion functions: InvalidOperation and
\* DivisionByZero are logged and become None, anything else propagates
ConversionResult(r) ==
  IF r = Exc("InvalidOperation") \/ r = Exc("DivisionByZero") THEN None ELSE r

convert_to_lightyears(value, from_unit) ==
  LET v == Call("DecimalOfStr", <<value>>)
  IN ConversionResult(
       IF IsExc(v) THEN v
       ELSE IF from_unit = "ly" THEN v
       ELSE IF from_unit = "km" THEN Call("DecDiv", <<v, KM_PER_LIGHTYEAR>>)
       ELSE IF from_unit = "mi" THEN Call("DecDiv", <<v, MILES_PER_LIGHTYEAR>>)
       ELSE Exc("ValueError"))

\* convert_from_lightyears with the factors of km and mi exchanged
convert_from_lightyears_exchanged(lightyears, to_unit) ==
  LET ly == Call("DecimalOfStr", <<lightyears>>)
  IN ConversionResult(
       IF IsExc(ly) THEN ly
       ELSE IF to_unit = "ly" THEN ly
       ELSE IF to_unit = "km" THEN Call("DecMul", <<ly, MILES_PER_LIGHTYEAR>>)
       ELSE IF to_unit = "mi" THEN Call("DecMul", <<ly, KM_PER_LIGHTYEAR>>)
       ELSE Exc("ValueError"))

convert_from_lightyears(lightyears, to_unit) ==
  LET ly == Call("DecimalOfStr", <<lightyears>>)
  IN ConversionResult(
       IF IsExc(ly) THEN ly
       ELSE IF to_unit = "ly" THEN ly
       ELSE IF to_unit = "km" THEN Call("DecMul", <<ly, KM_PER_LIGHTYEAR>>)
       ELSE IF to_unit = "mi" THEN Call("DecMul", <<ly, MILES_PER_LIGHTYEAR>>)
       ELSE Exc("ValueError"))

\* convert_distance_to_travel_time with the light years multiplied by the
\* velocity fraction
convert_distance_to_travel_time_multiplying(distance, velocity_percentage, from_unit) ==
  LET d == Call("DecimalOfStr", <<distance>>)
      light_years == IF from_unit = "ly" THEN d
                     ELSE IF from_unit = "km" THEN Call("DecDiv", <<d, KM_PER_LIGHTYEAR>>)
                     ELSE IF from_unit = "mi" THEN Call("DecDiv", <<d, MILES_PER_LIGHTYEAR>>)
                     ELSE Exc("ValueError")
      velocity_fraction == Call("DecDiv", <<velocity_percentage, DecInt(100)>>)
      travel_time_years == Call("DecMul", <<light_years, velocity_fraction>>)
  IN ConversionResult(Call("DecMul", <<travel_time_years, SECONDS_PER_YEAR>>))

convert_distance_to_travel_time(distance, velocity_percentage, from_unit) ==
  LET d == Call("DecimalOfStr", <<distance>>)
      light_years == IF from_unit = "ly" THEN d
                     ELSE IF from_unit = "km" THEN Call("DecDiv", <<d, KM_PER_LIGHTYEAR>>)
                     ELSE IF from_unit = "mi" THEN Call("DecDiv", <<d, MILES_PER_LIGHTYEAR>>)
                     ELSE Exc("ValueError")
      velocity_fraction == Call("DecDiv", <<velocity_percentage, DecInt(100)>>)
      travel_time_years == Call("DecDiv", <<light_years, velocity_fraction>>)
  IN ConversionResult(Call("DecMul", <<travel_time_years, SECONDS_PER_YEAR>>))

\* "-" * 40
Rule40 == "----------------------------------------"

format_output(earth_time, traveler_time, gamma, velocity_str, unit) ==
  IF \/ format_large_or_small_number_raises(gamma)
     \/ format_large_or_small_number_raises(earth_time)
     \/ format_large_or_small_number_raises(traveler_time)
  THEN "Error formatting output"
  ELSE "\n=== Time Dilation Calculation Results ===\n"
       \o "Velocity: " \o velocity_str \o "% of c (" \o unit \o ")\n"
       \o "Gamma factor: " \o Call("format_large_or_small_number", <<gamma>>) \o "\n"
       \o "\nMeasurement Details:\n"
       \o Rule40 \o "\n"
       \o "Earth time:\n"
       \o "  " \o Call("format_time", <<earth_time>>) \o "\n"
       \o "  (" \o Call("format_large_or_small_number", <<earth_time>>) \o " seconds)\n"
       \o "\nTraveler time:\n"
       \o "  " \o Call("format_time", <<traveler_time>>) \o "\n"
       \o "  (" \o Call("format_large_or_small_number", <<traveler_time>>) \o " seconds)\n"
       \o Rule40

\* the arguments of a call of the relativity functions from outside the form:
\* an Earth time and two velocities as they are written, and a unit of c (by
\* its place in c_units)
EngineArg(t, v, w, k) ==
  [T |-> Call("DecimalFromChars", <<t>>), v |-> Call("DecimalFromChars", <<v>>), w |-> Call("DecimalFromChars", <<w>>),
   c |-> c_units[k]]

(***************************************************************************)
(* TimeDilationCalculator: the form and its handlers                       *)
(***************************************************************************)
PROGRESS_STEPS ==
  [START |-> 0, INPUT_VALIDATED |-> 20, UNIT_SELECTED |-> 30,
   GAMMA_CALCULATED |-> 60, TIME_CALCULATED |-> 80, COMPLETE |-> 100]

MeasurementTypes == {"Time", "Distance"}
DistanceUnitTexts == {"Light Years (ly)", "Kilometers (km)", "Miles (mi)"}
UnitNames == <<"m/s", "cm/s", "mm/s", "μm/s", "nm/s">>
PLACEHOLDER == <<"9", "9", ".", "9", "9", "9", "9", "9", "9", "9", "9", "9", "9", "9", "9">>

\* k nines
Nines(k) == [i \in 1..k |-> "9"]

\* k zeros
ZeroChars(k) == [i \in 1..k |-> "0"]

\* the literal of the near-light-speed check: 99.99...9, written with two more
\* nines after the point than the context has digits (202 for the 200)
NEAR_C_CHARS == <<"9", "9", ".">> \o Nines(prec + 2)

\* the literal is a float literal: the float nearest to it
NEAR_C == FloatFromDec(Call("DecimalFromChars", <<NEAR_C_CHARS>>))

RECURSIVE Concat(_)
\* "".join(chars)
Concat(chars) == IF Len(chars) = 0 THEN "" ELSE Head(chars) \o Concat(Tail(chars))

\* measurement_type.lower()
Lower(measurement_type) == IF measurement_type = "Time" THEN "time" ELSE "distance"

\* the unit code read from the text of the distance unit box
UnitCode(unit_text) ==
  CASE unit_text = "Light Years (ly)" -> "ly"
    [] unit_text = "Kilometers (km)" -> "km"
    [] unit_text = "Miles (mi)" -> "mi"
    [] OTHER -> "unsupported"

\* list.index
UnitIndex(name) == CHOOSE i \in 1..Len(UnitNames) : UnitNames[i] = name

\* whether velocity < 100, nothing asked of its sign
InRangeBelowOnly(velocity) ==
  Call("DecCmp", <<velocity, DecInt(100)>>) < 0

\* whether 0 < velocity < 100 (velocity finite)
InRange(velocity) ==
  Call("DecCmp", <<DecInt(0), velocity>>) < 0 /\ Call("DecCmp", <<velocity, DecInt(100)>>) < 0

NoLocals ==
  [velocity |-> None, input_value |-> None, earth_time |-> None, gamma |-> None,
   traveler_time |-> None]

\* the messages of the two velocity checks
RANGE_MESSAGE == "Velocity must be between 0 and 100 percent of c (exclusive)"
NEAR_C_MESSAGE ==
  "Velocity is too close to the speed of light. "
  \o "Calculations become unreliable above "
  \o Concat(NEAR_C_CHARS) \o "% of c due to "
  \o "extreme relativistic effects."

\* an except clause that leaves the progress where the failure found it
FailedWhereItWas(message, progress, calls, locals) ==
  [text |-> "Error: " \o message, status |-> "Error in calculation",
   progress |-> progress, calls |-> calls, locals |-> locals]

\* the except clause of calculate, reached with the progress values and the
\* calls so far
Failed(message, progress, calls, locals) ==
  [text |-> "Error: " \o message, status |-> "Error in calculation",
   progress |-> Append(progress, PROGRESS_STEPS.START), calls |-> calls,
   locals |-> locals]

\* the body of calculate's try block and its except clause, for what the form
\* holds (the velocity and magnitude entries, the measurement box, the
\* distance unit box and the box of the unit of c): what the handler leaves in
\* the results area and the status line, the progress values it sets, the calls
\* it makes to the module functions (with the velocity passed and what came
\* back), and its locals
Calculation(velocity_text, measurement_type, magnitude_text, unit_text, unit_name) ==
  LET START == <<PROGRESS_STEPS.START>>
      velocity == safe_decimal_convert(Str(velocity_text))
      input_value == safe_decimal_convert(Str(magnitude_text))
      l0 == [NoLocals EXCEPT !.velocity = velocity, !.input_value = input_value]
      unit == UnitCode(unit_text)
      distance == measurement_type = "Distance"
      earth_time == IF distance
                    THEN Call("convert_distance_to_travel_time", <<input_value, velocity, unit>>)
                    ELSE Call("DecMul", <<input_value, SECONDS_PER_YEAR>>)
      calls1 == IF distance
                THEN <<[fn |-> "convert_distance_to_travel_time", velocity |-> velocity,
                        returned |-> earth_time]>>
                ELSE <<>>
      l1 == [l0 EXCEPT !.earth_time = earth_time]
      validated == Append(START, PROGRESS_STEPS.INPUT_VALIDATED)
      c_current == c_units[UnitIndex(unit_name)]
      selected == Append(validated, PROGRESS_STEPS.UNIT_SELECTED)
      gamma == Call("time_dilation_factor", <<velocity, c_current>>)
      calls2 == Append(calls1, [fn |-> "time_dilation_factor", velocity |-> velocity,
                                returned |-> gamma])
      l2 == [l1 EXCEPT !.gamma = gamma]
      calculated == Append(selected, PROGRESS_STEPS.GAMMA_CALCULATED)
      traveler_time == Call("time_dilation", <<earth_time, velocity, c_current>>)
      calls3 == Append(calls2, [fn |-> "time_dilation", velocity |-> velocity,
                                returned |-> traveler_time])
      l3 == [l2 EXCEPT !.traveler_time = traveler_time]
      timed == Append(calculated, PROGRESS_STEPS.TIME_CALCULATED)
      result == Call("format_output", <<earth_time, traveler_time, gamma, Call("DecStr", <<velocity>>),
                              Call("format_large_or_small_number", <<c_current>>) \o " " \o unit_name>>)
  IN IF IsNone(velocity)
     THEN Call("Failed", <<"Please enter a valid number for velocity", START, <<>>, NoLocals>>)
     ELSE IF IsNone(input_value)
     THEN Call("Failed", <<"Please enter a valid number for " \o Lower(measurement_type),
                 START, <<>>, l0>>)
     ELSE IF IsNaN(input_value)
     THEN Call("Failed", <<ExcText(Exc("InvalidOperation")), START, <<>>, l0>>)
     ELSE IF Call("DecCmp", <<input_value, DecInt(0)>>) <= 0
     THEN Call("Failed", <<measurement_type \o " must be positive", START, <<>>, l0>>)
     ELSE IF distance /\ unit = "unsupported"
     THEN Call("Failed", <<"Unsupported unit: " \o unit_text, START, <<>>, l0>>)
     ELSE IF IsNone(earth_time)
     THEN Call("Failed", <<"Error calculating travel time", START, calls1, l0>>)
     ELSE IF IsExc(earth_time)
     THEN Call("Failed", <<ExcText(earth_time), START, calls1, l0>>)
     ELSE IF IsNaN(velocity)
     THEN Call("Failed", <<ExcText(Exc("InvalidOperation")), validated, calls1, l1>>)
     ELSE IF ~Call("InRange", <<velocity>>)
     THEN Call("Failed", <<RANGE_MESSAGE, validated, calls1, l1>>)
     ELSE IF Call("DecCmp", <<velocity, Call("FloatToDec", <<NEAR_C>>)>>) >= 0
     THEN Call("Failed", <<NEAR_C_MESSAGE, validated, calls1, l1>>)
     ELSE IF IsNone(gamma)
     THEN Call("Failed", <<"Invalid calculation result", selected, calls2, l1>>)
     ELSE IF IsExc(traveler_time)
     THEN Call("Failed", <<ExcText(traveler_time), calculated, calls3, l2>>)
     ELSE [text |-> result, status |-> "Calculation complete",
           progress |-> Append(timed, PROGRESS_STEPS.COMPLETE), calls |-> calls3,
           locals |-> l3]

Call(op, x) ==
  CASE op = "BNorm" -> BNorm(x[1])
    [] op = "BToInt" -> BToInt(x[1])
    [] op = "BCmp" -> BCmp(x[1], x[2])
    [] op = "BPropagate" -> BPropagate(x[1], x[2], x[3], x[4])
    [] op = "BAdd" -> BAdd(x[1], x[2])
    [] op = "BSub" -> BSub(x[1], x[2])
    [] op = "BMul" -> BMul(x[1], x[2])
    [] op = "BDivBy" -> BDivBy(x[1], x[2])
    [] op = "BFixLimb" -> BFixLimb(x[1], x[2], x[3])
    [] op = "BLongDiv" -> BLongDiv(x[1], x[2], x[3], x[4], x[5])
    [] op = "BDivMod" -> BDivMod(x[1], x[2])
    [] op = "BPow10" -> BPow10(x[1])
    [] op = "BMulPow10" -> BMulPow10(x[1], x[2])
    [] op = "BDivPow10" -> BDivPow10(x[1], x[2])
    [] op = "BNumDigits" -> BNumDigits(x[1])
    [] op = "BDigit" -> BDigit(x[1], x[2])
    [] op = "BRoundPow10" -> BRoundPow10(x[1], x[2])
    [] op = "BPow2" -> BPow2(x[1])
    [] op = "BRoundDiv" -> BRoundDiv(x[1], x[2])
    [] op = "BBitLenFrom" -> BBitLenFrom(x[1], x[2])
    [] op = "BSqrt" -> BSqrt(x[1])
    [] op = "DecFixTo" -> DecFixTo(x[1], x[2])
    [] op = "DecNeg" -> DecNeg(x[1])
    [] op = "DecAbs" -> DecAbs(x[1])
    [] op = "DecMul" -> DecMul(x[1], x[2])
    [] op = "DecSquare" -> DecSquare(x[1])
    [] op = "DecDiv" -> DecDiv(x[1], x[2])
    [] op = "DecCmpMag" -> DecCmpMag(x[1], x[2])
    [] op = "DecCmp" -> DecCmp(x[1], x[2])
    [] op = "DecAddAligned" -> DecAddAligned(x[1], x[2], x[3])
    [] op = "DecAddOperand" -> DecAddOperand(x[1], x[2])
    [] op = "DecAddPadded" -> DecAddPadded(x[1], x[2], x[3])
    [] op = "DecAddFinite" -> DecAddFinite(x[1], x[2])
    [] op = "DecAdd" -> DecAdd(x[1], x[2])
    [] op = "DecDivide" -> DecDivide(x[1], x[2])
    [] op = "DecMod" -> DecMod(x[1], x[2])
    [] op = "BPow5" -> BPow5(x[1])
    [] op = "FloatFromRatio" -> FloatFromRatio(x[1], x[2])
    [] op = "FloatRatio" -> FloatRatio(x[1], x[2])
    [] op = "FloatToDec" -> FloatToDec(x[1])
    [] op = "FloatSqrt" -> FloatSqrt(x[1])
    [] op = "FloatRecip" -> FloatRecip(x[1])
    [] op = "DecExactSub" -> DecExactSub(x[1], x[2])
    [] op = "DecExactAdd" -> DecExactAdd(x[1], x[2])
    [] op = "DecExactMul" -> DecExactMul(x[1], x[2])
    [] op = "DurationTotal" -> DurationTotal(x[1])
    [] op = "DurationInRange" -> DurationInRange(x[1])
    [] op = "FloatHalfGaps" -> FloatHalfGaps(x[1])
    [] op = "FloatRoundTrips" -> FloatRoundTrips(x[1], x[2], x[3], x[4])
    [] op = "DecRoundDigits" -> DecRoundDigits(x[1], x[2])
    [] op = "FloatShortest" -> FloatShortest(x[1], x[2], x[3], x[4])
    [] op = "FloatRepr" -> FloatRepr(x[1])
    [] op = "BFromDigits" -> BFromDigits(x[1])
    [] op = "ExponentFromChars" -> ExponentFromChars(x[1])
    [] op = "DecimalFromParts" -> DecimalFromParts(x[1], x[2], x[3], x[4])
    [] op = "DecimalFromMantissa" -> DecimalFromMantissa(x[1], x[2], x[3])
    [] op = "DecimalFromBody" -> DecimalFromBody(x[1], x[2])
    [] op = "DecimalFromChars" -> DecimalFromChars(x[1])
    [] op = "Pad4" -> Pad4(x[1])
    [] op = "BStr" -> BStr(x[1])
    [] op = "BStrWidth" -> BStrWidth(x[1], x[2])
    [] op = "DecStr" -> DecStr(x[1])
    [] op = "FixedStripped" -> FixedStripped(x[1], x[2])
    [] op = "DecimalOfStr" -> DecimalOfStr(x[1])
    [] op = "PrefixIndex" -> PrefixIndex(x[1])
    [] op = "format_large_or_small_number" -> format_large_or_small_number(x[1])
    [] op = "format_time_parts" -> format_time_parts(x[1])
    [] op = "format_time" -> format_time(x[1])
    [] op = "RecipSqrt" -> RecipSqrt(x[1])
    [] op = "time_dilation_factor" -> time_dilation_factor(x[1], x[2])
    [] op = "time_dilation" -> time_dilation(x[1], x[2], x[3])
    [] op = "convert_to_lightyears" -> convert_to_lightyears(x[1], x[2])
    [] op = "convert_from_lightyears" -> convert_from_lightyears(x[1], x[2])
    [] op = "convert_distance_to_travel_time" -> convert_distance_to_travel_time(x[1], x[2], x[3])
    [] op = "format_output" -> format_output(x[1], x[2], x[3], x[4], x[5])
    [] op = "EngineArg" -> EngineArg(x[1], x[2], x[3], x[4])
    [] op = "InRange" -> InRange(x[1])
    [] op = "Failed" -> Failed(x[1], x[2], x[3], x[4])
    [] op = "Calculation" -> Calculation(x[1], x[2], x[3], x[4], x[5])

\* a results area that keeps what it shows
keep(text) == text

\* results_text.delete(1.0, tk.END)
delete(text) == ""

\* results_text.insert(tk.END, chars)
insert(text, chars) == text \o chars

\* the Calculate button; run.earlier tells whether a calculation had run before
calculate ==
  \E out \in {Call("Calculation", <<velocity_var, measurement_var, time_var,
                           distance_unit_var, unit_var>>)} :
     /\ results_text' = insert(delete(results_text), out.text)
     /\ status_var' = out.status
     /\ progress_var' = out.progress[Len(out.progress)]
     /\ run' = [calls |-> out.calls, progress |-> out.progress, locals |-> out.locals,
                 earlier |-> run.progress # <<>>]
     /\ UNCHANGED <<form, call>>

\* <<ComboboxSelected>> of the measurement box, the selection made
update_measurement_label(measurement_type) ==
  /\ measurement_var' = measurement_type
  /\ measurement_label' = IF measurement_type = "Time" THEN "Time on Earth (years):"
                          ELSE "Distance to Travel:"
  /\ UNCHANGED <<velocity_var, time_var, distance_unit_var, unit_var, display, call>>

\* <FocusIn> of the velocity entry
clear_placeholder ==
  /\ velocity_var' = IF velocity_var = PLACEHOLDER THEN <<>> ELSE velocity_var
  /\ UNCHANGED <<measurement_var, time_var, distance_unit_var, unit_var,
                 measurement_label, display, call>>

\* <FocusOut> of the velocity entry
restore_placeholder ==
  /\ velocity_var' = IF velocity_var = <<>> THEN PLACEHOLDER ELSE velocity_var
  /\ UNCHANGED <<measurement_var, time_var, distance_unit_var, unit_var,
                 measurement_label, display, call>>

(***************************************************************************)
(* The form as the user may have filled it in                              *)
(***************************************************************************)
\* the threshold as documented: 99.99...9 with one digit more than the context
\* has (201 digits for the 200), which is below the literal of the code
DOCUMENTED_NEAR_C_CHARS == <<"9", "9", ".">> \o Nines(prec - 1)

VelocityTexts ==
  { <<"5", "0">>,
  <<"9", "9">>,
  <<"0">>,
  <<"-", "5">>,
  <<"1", "0", "0">>,
  <<"1", "5", "0">>,
  <<"a", "b", "c">>,
  <<>>,
  <<"N", "a", "N">>,
  <<"1", "e", "-", "7">>,
  <<"0", ".", "5">>,
  <<"9", "9", ".", "9", "9", "9", "9", "9", "9", "9", "9", "9", "9", "9", "9">> }
  \cup {DOCUMENTED_NEAR_C_CHARS, NEAR_C_CHARS}

MagnitudeTexts ==
  { <<"1">>,
  <<"4", ".", "2", "5">>,
  <<"0">>,
  <<"-", "1">>,
  <<"a", "b", "c">>,
  <<>>,
  <<"N", "a", "N">>,
  <<"1", "e", "4", "0">>,
  <<"1", "e", "9", "9", "9", "9", "9", "9">> }

\* the forms examined: every velocity with one year; every magnitude at half
\* the speed of light; the velocities near c in every unit of c; a distance
\* in every distance unit
Forms ==
  [v : VelocityTexts, t : {<<"1">>}, du : {"Light Years (ly)"}, u : {"m/s"}]
  \cup [v : {<<"5", "0">>}, t : MagnitudeTexts, du : {"Light Years (ly)"}, u : {"m/s"}]
  \cup [v : {<<"9", "9">>, DOCUMENTED_NEAR_C_CHARS}, t : {<<"1">>},
        du : {"Light Years (ly)"}, u : {UnitNames[i] : i \in 1..Len(UnitNames)}]
  \cup [v : {<<"9", "9">>, <<"1", "5", "0">>, <<"0">>}, t : {<<"4", ".", "2", "5">>},
        du : DistanceUnitTexts, u : {"m/s"}]
  \cup [v : {<<"0">>}, t : {<<"1", "e", "4", "0">>}, du : DistanceUnitTexts, u : {"m/s"}]

NoRun == [calls |-> <<>>, progress |-> <<>>, locals |-> NoLocals, earlier |-> FALSE]

NoCall == fn = "none" /\ args = <<>> /\ ret = None

Init ==
  /\ \E f \in Forms :
       /\ velocity_var = f.v
       /\ time_var = f.t
       /\ distance_unit_var = f.du
       /\ unit_var = f.u
  /\ measurement_var = "Time"
  /\ measurement_label = "Time on Earth (years):"
  /\ results_text = ""
  /\ status_var = ""
  /\ progress_var = 0
  /\ run = NoRun
  /\ NoCall

Next ==
  \/ calculate
  \/ \E m \in MeasurementTypes : update_measurement_label(m)
  \/ clear_placeholder
  \/ restore_placeholder

Spec == Init /\ [][Next]_vars

(***************************************************************************)
(* What a calculation left on the form                                     *)
(***************************************************************************)
\* calculate has run: run holds the velocity and the magnitude it parsed, the
\* calls it made and the progress values it set
Calculated == run.progress # <<>>

\* a finite Decimal
IsNumber(x) == IsDec(x) /\ ~IsNaN(x)

\* the magnitude of the latest calculation parsed to a number > 0
MagnitudeValid ==
  IsNumber(run.locals.input_value) /\ Call("DecCmp", <<run.locals.input_value, DecInt(0)>>) > 0

\* the velocity of the latest calculation parsed to a number in (0, 100)
VelocityValid ==
  /\ IsNumber(run.locals.velocity)
  /\ Call("DecCmp", <<run.locals.velocity, DecInt(0)>>) > 0
  /\ Call("DecCmp", <<run.locals.velocity, DecInt(100)>>) < 0

StartsWith(text, prefix) ==
  Len(text) >= Len(prefix) /\ SubSeq(text, 1, Len(prefix)) = prefix

\* the results area shows the result report of format_output
ShowsReport == StartsWith(results_text, "\n=== Time Dilation Calculation Results ===\n")

\* the results area shows "Error: " and a message
ShowsError == StartsWith(results_text, "Error: ") /\ Len(results_text) > Len("Error: ")

DOCUMENTED_NEAR_C == Call("DecimalFromChars", <<DOCUMENTED_NEAR_C_CHARS>>)

(***************************************************************************)
(* C1                                                                      *)
(***************************************************************************)
\* C1: a calculation whose velocity is the documented near-c threshold (and
\* whose magnitude is a number > 0) ends with the near-light-speed message,
\* which is not the range message; one whose velocity is 99 ends with a float
\* gamma and the result report
C1_NearLightSpeedRejected ==
  (Calculated /\ MagnitudeValid) =>
    /\ run.locals.velocity = DOCUMENTED_NEAR_C =>
         /\ results_text = "Error: " \o NEAR_C_MESSAGE
         /\ results_text # "Error: " \o RANGE_MESSAGE
    /\ run.locals.velocity = DecInt(99) =>
         /\ IsFloat(run.locals.gamma)
         /\ ShowsReport

(***************************************************************************)
(* C2                                                                      *)
(***************************************************************************)
\* C2: every call a calculation made to convert_distance_to_travel_time,
\* time_dilation_factor or time_dilation was made with a velocity that is a
\* number in (0, 100): the range check came first
C2_RangeCheckedBeforeCalls ==
  \A i \in 1..Len(run.calls) :
    IsNumber(run.calls[i].velocity) /\ Call("InRange", <<run.calls[i].velocity>>)

(***************************************************************************)
(* The relativity functions applied on their own                           *)
(***************************************************************************)
\* the form nobody has touched
Untouched ==
  /\ velocity_var = PLACEHOLDER
  /\ measurement_var = "Time"
  /\ time_var = <<>>
  /\ distance_unit_var = "Light Years (ly)"
  /\ unit_var = "m/s"
  /\ measurement_label = "Time on Earth (years):"
  /\ results_text = ""
  /\ status_var = ""
  /\ progress_var = 0
  /\ run = NoRun

\* velocities in (0, 100), in increasing order; the last two lie in the band
\* next to 100 where time_dilation_factor has no result
EngineVelocityTexts ==
  << <<"1", "e", "-", "7">>,
     <<"1", "e", "-", "5">>,
     <<"0", ".", "5">>,
     <<"5", "0">>,
     <<"9", "9">>,
     PLACEHOLDER,
     <<"9", "9", ".">> \o Nines(prec - 8),
     <<"9", "9", ".">> \o Nines(prec - 2),
     DOCUMENTED_NEAR_C_CHARS >>

\* velocities outside (0, 100); the last is above 100 by less than the
\* context keeps
OutsideVelocityTexts ==
  { <<"0">>, <<"-", "5">>, <<"1", "0", "0">>, <<"1", "5", "0">>,
    <<"1", "0", "0", ".", "0", "0", "0", "0", "0", "0", "1">>, <<"1", "e", "3">>,
    <<"1", "e", "9", "9", "9", "9", "9", "9">>, <<"N", "a", "N">>,
    <<"1", "0", "0", ".">> \o ZeroChars(prec) \o <<"1">> }

\* an Earth time with one digit more than the context keeps: 10^prec + 7
LONG_TIME_CHARS == <<"1">> \o ZeroChars(prec - 1) \o <<"7">>

EarthTimeTexts ==
  { <<"3", "1", "5", "5", "7", "6", "0", "0">>, <<"0", ".", "0", "0", "1">>,
    LONG_TIME_CHARS }

NumVelocities == Len(EngineVelocityTexts)

\* a year in seconds, as it is written
YEAR_CHARS == <<"3", "1", "5", "5", "7", "6", "0", "0">>

\* the applications examined: every pair of velocities in (0, 100) with every
\* Earth time; neighbouring velocities in the other units of c; the
\* velocities outside (0, 100) in every unit of c
EngineArgs ==
  { Call("EngineArg", <<t, EngineVelocityTexts[p[1]], EngineVelocityTexts[p[2]], 1>>) :
      t \in EarthTimeTexts,
      p \in {q \in (1..NumVelocities) \X (1..NumVelocities) : q[1] <= q[2]} }
  \cup
  { Call("EngineArg", <<YEAR_CHARS, EngineVelocityTexts[i], EngineVelocityTexts[i + 1], k>>) :
      i \in 1..(NumVelocities - 1), k \in 2..Len(UnitNames) }
  \cup
  { Call("EngineArg", <<<<"1">>, x, x, k>>) : x \in OutsideVelocityTexts, k \in 1..Len(UnitNames) }

InitEngine ==
  /\ Untouched
  /\ fn = "none"
  /\ ret = None
  /\ args \in EngineArgs

\* time_dilation_factor at both velocities
apply_time_dilation_factor ==
  /\ fn = "none"
  /\ fn' = "time_dilation_factor"
  /\ ret' = [v |-> Call("time_dilation_factor", <<args.v, args.c>>),
             w |-> Call("time_dilation_factor", <<args.w, args.c>>)]
  /\ UNCHANGED <<form, display, args>>

\* time_dilation at both velocities
apply_time_dilation ==
  /\ fn = "none"
  /\ fn' = "time_dilation"
  /\ ret' = [v |-> Call("time_dilation", <<args.T, args.v, args.c>>),
             w |-> Call("time_dilation", <<args.T, args.w, args.c>>)]
  /\ UNCHANGED <<form, display, args>>

NextEngine == apply_time_dilation_factor \/ apply_time_dilation

SpecEngine == InitEngine /\ [][NextEngine]_vars

\* the latest application was of time_dilation_factor
AppliedFactor == fn = "time_dilation_factor"

\* the latest application was of time_dilation
AppliedDilation == fn = "time_dilation"

\* a float as the Decimal of the same value
FloatValue(x) == Call("FloatToDec", <<x>>)

\* v is a number in (0, 100) below the documented near-c threshold
BelowNearC(v) ==
  IsNumber(v) /\ Call("InRange", <<v>>) /\ Call("DecCmp", <<v, DOCUMENTED_NEAR_C>>) < 0

(***************************************************************************)
(* C3                                                                      *)
(***************************************************************************)
\* C3: for a velocity in (0, 100) below the near-c threshold and any unit of
\* c, time_dilation_factor returns a number, and the number is strictly
\* greater than 1
C3_GammaAboveOne ==
  AppliedFactor =>
    /\ BelowNearC(args.v) =>
          IsFloat(ret.v) /\ Call("DecCmp", <<FloatValue(ret.v), DecInt(1)>>) > 0
    /\ BelowNearC(args.w) =>
          IsFloat(ret.w) /\ Call("DecCmp", <<FloatValue(ret.w), DecInt(1)>>) > 0

(***************************************************************************)
(* C4                                                                      *)
(***************************************************************************)
\* a <= b for two numbers
AtMost(a, b) == IsNumber(a) /\ IsNumber(b) /\ Call("DecCmp", <<a, b>>) <= 0

\* C4: for an Earth time T > 0, velocities v <= w in (0, 100) below the near-c
\* threshold and any unit of c, time_dilation returns at most T at either
\* velocity, and at w no more than at v
C4_DilatedTimeAtMostEarthTime ==
  (AppliedDilation /\ BelowNearC(args.v) /\ BelowNearC(args.w)
     /\ Call("DecCmp", <<args.T, DecInt(0)>>) > 0) =>
    /\ AtMost(ret.v, args.T)
    /\ AtMost(ret.w, args.T)
    /\ AtMost(ret.w, ret.v)

(***************************************************************************)
(* The conversion functions applied on their own                           *)
(***************************************************************************)
UnitCodes == {"ly", "km", "mi"}

\* distances as they are written; the last has as many digits as the context
DistanceTexts ==
  { <<"1">>,
    <<"7">>,
    <<"4", ".", "2", "5">>,
    <<"9", ".", "4", "6", "1", "e", "1", "2">>,
    <<"5", ".", "8", "7", "9", "e", "1", "2">>,
    <<"1", "e", "4", "0">>,
    <<"0">>,
    <<"-", "3">>,
    <<"0", ".", "0", "0", "1">>,
    <<"1", "2", "3", "4", "5", "6", "7", "8", "9">>,
    Nines(prec) }

ConvertVelocityTexts ==
  { <<"0">>,
    <<"1", "e", "-", "7">>,
    <<"5", "0">>,
    <<"9", "9">>,
    <<"1", "5", "0">> }

ConvertArgs ==
  { [d |-> Call("DecimalFromChars", <<d>>), v |-> Call("DecimalFromChars", <<v>>), u |-> u] :
      d \in DistanceTexts, v \in ConvertVelocityTexts, u \in UnitCodes }

InitConvert ==
  /\ Untouched
  /\ fn = "none"
  /\ ret = None
  /\ args \in ConvertArgs

\* convert_to_lightyears of the distance
apply_convert_to_lightyears ==
  /\ fn = "none"
  /\ fn' = "convert_to_lightyears"
  /\ ret' = [ly |-> Call("convert_to_lightyears", <<args.d, args.u>>)]
  /\ UNCHANGED <<form, display, args>>

\* convert_from_lightyears of what convert_to_lightyears returned, to the
\* same unit
apply_convert_from_lightyears ==
  /\ fn = "convert_to_lightyears"
  /\ fn' = "convert_from_lightyears"
  /\ ret' = [ly |-> ret.ly, back |-> Call("convert_from_lightyears", <<ret.ly, args.u>>)]
  /\ UNCHANGED <<form, display, args>>

\* convert_distance_to_travel_time of the distance at the velocity
apply_convert_distance_to_travel_time ==
  /\ fn = "none"
  /\ fn' = "convert_distance_to_travel_time"
  /\ ret' = [seconds |-> Call("convert_distance_to_travel_time", <<args.d, args.v, args.u>>)]
  /\ UNCHANGED <<form, display, args>>

NextConvert ==
  \/ apply_convert_to_lightyears
  \/ apply_convert_from_lightyears
  \/ apply_convert_distance_to_travel_time

SpecConvert == InitConvert /\ [][NextConvert]_vars

\* a == b for two numbers
SameNumber(a, b) == IsNumber(a) /\ IsNumber(b) /\ Call("DecCmp", <<a, b>>) = 0

\* the distance has gone to light years and back
RoundTripped == fn = "convert_from_lightyears"

(***************************************************************************)
(* C5                                                                      *)
(***************************************************************************)
\* C5 as stated: a distance that went to light years and back, through km or
\* mi, is the distance it was; through ly neither function changed it
C5_RoundTripExact ==
  RoundTripped =>
    /\ SameNumber(ret.back, args.d)
    /\ args.u = "ly" => ret.ly = args.d

\* |a - b| for two numbers of one sign, exactly
Gap(a, b) ==
  IF Call("DecCmpMag", <<a, b>>) >= 0 THEN Call("DecExactSub", <<a, b>>)
  ELSE Call("DecExactSub", <<b, a>>)

\* whether |a - b| <= 2 * 10^(1 - prec) * |b|, exactly
WithinPrecision(a, b) ==
  LET gap == Gap(a, b)
  IN Call("DecCmpMag", <<Dec(0, gap.coef, gap.exp + prec - 1),
                         Dec(0, Call("BAdd", <<b.coef, b.coef>>), b.exp)>>) <= 0

\* C5: a distance that went to light years and back comes back within the
\* working precision: through km or mi it differs from what it was by no more
\* than 2 * 10^(1 - prec) of it; through ly neither function changed it
C5_RoundTripWithinPrecision ==
  RoundTripped =>
    /\ IsNumber(ret.back)
    /\ WithinPrecision(ret.back, args.d)
    /\ args.u = "ly" => ret.ly = args.d /\ ret.back = args.d

\* a distance came back from km or mi other than it was
C5_CameBackChanged ==
  /\ RoundTripped
  /\ args.u \in {"km", "mi"}
  /\ IsNumber(ret.back)
  /\ ~SameNumber(ret.back, args.d)

(***************************************************************************)
(* The formatters applied on their own                                     *)
(***************************************************************************)
\* durations in seconds as they are written
SecondsTexts ==
  { <<"0">>,
    <<"3", "1", "5", "5", "7", "6", "0", "0">>,
    <<"6", "3", "1", "1", "5", "2", "0", "0">>,
    <<"3", "4", "1", "8", "7", "4", "0", "0">>,
    <<"1">>,
    <<"5", "9">>,
    <<"6", "0">>,
    <<"3", "6", "0", "0">>,
    <<"8", "6", "4", "0", "0">>,
    <<"2", "6", "2", "9", "8", "0", "0">>,
    <<"9", "0", "0", "6", "1">>,
    <<"0", ".", "0", "0", "1">>,
    <<"5", ".", "5">>,
    <<"3", "1", "5", "5", "7", "6", "0", "0", ".", "2", "5">>,
    <<"-", "5">>,
    <<"-", "3", "1", "5", "5", "7", "6", "0", "0">>,
    <<"-", "3", "4", "1", "8", "7", "4", "0", "0">>,
    <<"1", "e", "3", "0", "0">>,
    <<"2", "7", "3", "2", "9", "6", "8", "3", ".", "3">>,
    <<"1", ".", "5", "e", "-", "3", "1">> }

\* 31557600 * (10^prec - 1), the most years whose count the context can hold,
\* 31557600 * 10^prec, one year count too many, and 1.00...01 with one digit
\* more than the context keeps
MOST_YEARS_CHARS ==
  <<"3", "1", "5", "5", "7", "5", "9", "9">> \o Nines(prec - 8)
  \o <<"6", "8", "4", "4", "2", "4", "0", "0">>
TOO_MANY_YEARS_CHARS == YEAR_CHARS \o ZeroChars(prec)
LONG_FRACTION_CHARS == <<"1", ".">> \o ZeroChars(prec - 1) \o <<"1">>

\* 31557599.99...9, a second short of a year, of as many digits as the context
\* keeps and of eight more
FULL_PRECISION_CHARS == <<"3", "1", "5", "5", "7", "5", "9", "9", ".">> \o Nines(prec - 8)
PAST_PRECISION_CHARS == <<"3", "1", "5", "5", "7", "5", "9", "9", ".">> \o Nines(prec)

\* 999.99...9 with three digits more than the context keeps
NEARLY_THOUSAND_CHARS == <<"9", "9", "9", ".">> \o Nines(prec)

\* other numbers as they are written
MagnitudeOnlyTexts ==
  { <<"2", "9", "9", "7", "9", "2", "4", "5", "8">>,
    <<"1", "e", "3", "0">>,
    <<"1", "e", "2", "9">>,
    <<"9", "9", "9">>,
    <<"1", "0", "0", "0">>,
    <<"-", "2", "5", "0", "0", "0", "0", "0">>,
    <<"1", "e", "-", "3", "0">>,
    <<"9", "e", "-", "3", "1">>,
    <<"0", ".", "5">>,
    <<"1", "e", "-", "3">>,
    <<"1", "2", "3", "4", "5", "6", ".", "7", "8", "9">>,
    <<"1", "e", "3", "3">> }

\* what is not a number: a text that does not parse, the empty text, None,
\* the Decimal NaN and the float nan
NotNumbers == {Str(<<"a", "b", "c">>), Str(<<>>), None, NaN, FloatNaN}

FormatArgs ==
  { Call("DecimalFromChars", <<t>>) :
      t \in SecondsTexts \cup MagnitudeOnlyTexts
            \cup {MOST_YEARS_CHARS, TOO_MANY_YEARS_CHARS, LONG_FRACTION_CHARS,
                  NEARLY_THOUSAND_CHARS, FULL_PRECISION_CHARS, PAST_PRECISION_CHARS} }
  \cup { Str(t) : t \in {<<"9", "0", "0", "6", "1">>, <<"1", "e", "3">>} }
  \cup NotNumbers

InitFormat ==
  /\ Untouched
  /\ fn = "none"
  /\ ret = None
  /\ args \in FormatArgs

\* format_time of the value; its locals after the divisions are kept
apply_format_time ==
  /\ fn = "none"
  /\ fn' = "format_time"
  /\ ret' = [text |-> Call("format_time", <<args>>),
             parts |-> Call("format_time_parts", <<args>>)]
  /\ UNCHANGED <<form, display, args>>

\* format_large_or_small_number of the value
apply_format_large_or_small_number ==
  /\ fn = "none"
  /\ fn' = "format_large_or_small_number"
  /\ ret' = [out |-> Call("format_large_or_small_number", <<args>>)]
  /\ UNCHANGED <<form, display, args>>

NextFormat == apply_format_time \/ apply_format_large_or_small_number

SpecFormat == InitFormat /\ [][NextFormat]_vars

\* the latest application was of format_time
AppliedFormatTime == fn = "format_time"

\* the divisions of format_time went through: every local is a number
PartsComputed(p) == \A k \in DOMAIN p : IsNumber(p[k])

\* the component x under its label, when it is not zero
Labelled(x, label) ==
  IF Call("DecCmp", <<x, DecInt(0)>>) # 0 THEN <<Call("DecStr", <<x>>) \o " " \o label>> ELSE <<>>

\* the components that are not zero, in order, each under its plural label
NonZeroParts(p) ==
  Labelled(p.years, "years") \o Labelled(p.months, "months") \o Labelled(p.days, "days")
  \o Labelled(p.hours, "hours") \o Labelled(p.minutes, "minutes")
  \o (IF Call("DecCmp", <<p.seconds, DecInt(0)>>) # 0
      THEN <<Call("format_large_or_small_number", <<p.seconds>>) \o " seconds">> ELSE <<>>)

(***************************************************************************)
(* C6                                                                      *)
(***************************************************************************)
\* C6: for a number of seconds format_time returns the components that are
\* not zero, comma-joined in the order years, months, days, hours, minutes,
\* seconds under their plural labels, and "0 seconds" exactly when all are
\* zero; 0 gives "0 seconds", 31557600 gives "1 years" and 31557600 * 10^prec
\* gives 10^prec years
C6_DurationListsNonZeroParts ==
  (AppliedFormatTime /\ IsNumber(args)) =>
    /\ PartsComputed(ret.parts)
    /\ ret.text = (IF NonZeroParts(ret.parts) = <<>> THEN "0 seconds"
                   ELSE JoinComma(NonZeroParts(ret.parts)))
    /\ (ret.text = "0 seconds") <=> (NonZeroParts(ret.parts) = <<>>)
    /\ args = DecInt(0) => ret.text = "0 seconds"
    /\ args = SECONDS_PER_YEAR => ret.text = "1 years"
    /\ args = Call("DecimalFromChars", <<TOO_MANY_YEARS_CHARS>>) =>
          ret.text = "1" \o Zeros(prec) \o " years"

\* the latest application was of format_large_or_small_number
AppliedFormatNumber == fn = "format_large_or_small_number"

\* entry i of SI_PREFIXES has the largest factor that is not above a
LargestNotAbove(i, a) ==
  /\ Call("DecCmp", <<SI_PREFIXES[i].factor, a>>) <= 0
  /\ \A j \in 1..Len(SI_PREFIXES) :
       Call("DecCmp", <<SI_PREFIXES[j].factor, a>>) <= 0 =>
         Call("DecCmp", <<SI_PREFIXES[j].factor, SI_PREFIXES[i].factor>>) <= 0

\* value / factor written with 50 decimals and stripped, and the prefix name
\* after a space when it has one
Rendered(value, entry) ==
  IF entry.prefix = "" THEN Call("FixedStripped", <<Call("DecDiv", <<value, entry.factor>>), 50>>)
  ELSE Call("FixedStripped", <<Call("DecDiv", <<value, entry.factor>>), 50>>) \o " " \o entry.prefix

Between(lo, x, hi) ==
  IsNumber(x) /\ Call("DecCmp", <<lo, x>>) <= 0 /\ Call("DecCmp", <<x, hi>>) < 0

\* the latest calculation was of one year of Earth time at half the speed of
\* light, c in m/s
HalfLightSpeedYear ==
  /\ Calculated
  /\ unit_var = "m/s"
  /\ SameNumber(run.locals.velocity, DecInt(50))
  /\ SameNumber(run.locals.earth_time, SECONDS_PER_YEAR)

\* gamma is 1.154700538379251..., and the traveler time 0.8660254... years
GammaAndYearsAsDocumented ==
  /\ IsFloat(run.locals.gamma)
  /\ Between(Dec(0, <<9251, 3837, 7005, 1154>>, -15), FloatValue(run.locals.gamma),
             Dec(0, <<9252, 3837, 7005, 1154>>, -15))
  /\ Between(Dec(0, <<254, 866>>, -7),
             Call("DecDiv", <<run.locals.traveler_time, SECONDS_PER_YEAR>>),
             Dec(0, <<255, 866>>, -7))

\* C8 as stated: at velocity 50 with one year of Earth time and c in m/s,
\* gamma is 1.154700538379251..., the traveler time is 0.8660254... years, and
\* that is 27,332,337 seconds to the second
C8_EndToEndAsStated ==
  HalfLightSpeedYear =>
    /\ GammaAndYearsAsDocumented
    /\ Between(DecInt(27332336), run.locals.traveler_time, DecInt(27332338))

\* C8: at velocity 50 with one year of Earth time and c in m/s, gamma is
\* 1.154700538379251..., the traveler time is 0.8660254... years, and that is
\* 27,329,683 seconds to the second
C8_EndToEnd ==
  HalfLightSpeedYear =>
    /\ GammaAndYearsAsDocumented
    /\ Between(DecInt(27329683), run.locals.traveler_time, DecInt(27329684))
    /\ ShowsReport

\* the calculation of C8 was made and showed its report
C8_Calculated == HalfLightSpeedYear /\ ShowsReport /\ IsNumber(run.locals.traveler_time)

(***************************************************************************)
(* C9                                                                      *)
(***************************************************************************)
\* the results area ends with the rule that closes the report
EndsWith(text, suffix) ==
  Len(text) >= Len(suffix)
  /\ SubSeq(text, Len(text) - Len(suffix) + 1, Len(text)) = suffix

\* the results area holds the whole report, from its heading to the rule
\* that closes it
ShowsFullReport == ShowsReport /\ EndsWith(results_text, "\n" \o Rule40)

AtOrAboveC(v) == IsNumber(v) /\ Call("DecCmp", <<v, DecInt(100)>>) >= 0

\* C10: for a velocity of 100 percent of c or more, in any unit of c,
\* time_dilation_factor returns None: no number and no exception
C10_NoGammaAtOrAboveC ==
  AppliedFactor =>
    /\ AtOrAboveC(args.v) => ret.v = None
    /\ AtOrAboveC(args.w) => ret.w = None

\* time_dilation_factor was applied at 150 percent of c and returned None
C10_AppliedAboveC ==
  AppliedFactor /\ SameNumber(args.v, DecInt(150)) /\ ret.v = None

(***************************************************************************)
(* C11                                                                     *)
(***************************************************************************)
\* call i of the latest calculation was convert_distance_to_travel_time at
\* velocity 0
ConvertedAtZero(i) ==
  /\ run.calls[i].fn = "convert_distance_to_travel_time"
  /\ SameNumber(run.calls[i].velocity, DecInt(0))

DurationLabels == {" years", " months", " days", " hours", " minutes", " seconds"}

\* a text that ends with the label of a component
IsDurationText(text) == \E label \in DurationLabels : EndsWith(text, label)

\* C12: whatever it is given, format_time returns a duration or the fixed
\* text "Error calculating time", and that text for what is not a number
C12_FormatTimeFailsClosed ==
  AppliedFormatTime =>
    /\ ret.text = "Error calculating time" \/ IsDurationText(ret.text)
    /\ args \in NotNumbers => ret.text = "Error calculating time"

\* format_time was given a text that does not parse
C12_GivenUnparsable ==
  AppliedFormatTime /\ args = Str(<<"a", "b", "c">>) /\ ret.text = "Error calculating time"

(***************************************************************************)
(* C13                                                                     *)
(***************************************************************************)
\* what calculate leaves when it is the first thing done to the form
FirstInvocation ==
  LET out == Call("Calculation", <<velocity_var, measurement_var, time_var,
                                   distance_unit_var, unit_var>>)
  IN <<out.text, out.status, out.progress[Len(out.progress)]>>

\* C13: every calculation, whatever was calculated before it, leaves the results
\* text, the status and the progress that a first calculation of the same
\* inputs leaves
C13_Stateless ==
  [][run' # run => <<results_text, status_var, progress_var>>' = FirstInvocation]_vars

\* a calculation that followed an earlier one has ended
C13_CalculatedAgain == Calculated /\ run.earlier /\ results_text # ""

(***************************************************************************)
(* C14                                                                     *)
(***************************************************************************)
AppliedTravelTime == fn = "convert_distance_to_travel_time"

\* convert_to_lightyears(d, u) / (v / 100) * 31557600
TravelTimeAsDocumented(d, v, u) ==
  Call("DecMul", <<Call("DecDiv", <<Call("convert_to_lightyears", <<d, u>>),
                                    Call("DecDiv", <<v, DecInt(100)>>)>>),
                   SECONDS_PER_YEAR>>)

\* 4.25 light years at 99 % of c
ProximaAt99 ==
  /\ SameNumber(args.d, Dec(0, <<425>>, -2))
  /\ SameNumber(args.v, DecInt(99))
  /\ args.u = "ly"

NoGamma(v) == Call("time_dilation_factor", <<v, args.c>>) = None

\* C15: at a velocity and a c for which time_dilation_factor returns None,
\* time_dilation returns None; it raises nothing
C15_NoneWhenNoGamma ==
  AppliedDilation =>
    /\ NoGamma(args.v) => ret.v = None
    /\ NoGamma(args.w) => ret.w = None

(***************************************************************************)
(* C16                                                                     *)
(***************************************************************************)
\* the progress values of a calculation that completes
DocumentedProgress == <<0, 20, 30, 60, 80, 100>>

\* the first k documented values, in their order
ProgressUpTo(k) == SubSeq(DocumentedProgress, 1, k)

\* C16: the progress values a calculation set are the documented ones in
\* their order up to 100, or the first of them and then 0 for the error; it
\* ended with 100, "Calculation complete" and the report, or with 0, "Error
\* in calculation" and only "Error: " and a message; "Calculating..." did
\* not stay
C16_ProgressAndFinalState ==
  Calculated =>
    /\ \/ /\ run.progress = DocumentedProgress
          /\ progress_var = 100
          /\ status_var = "Calculation complete"
          /\ ShowsFullReport
       \/ /\ \E k \in 1..(Len(DocumentedProgress) - 1) :
               run.progress = Append(ProgressUpTo(k), 0)
          /\ progress_var = 0
          /\ status_var = "Error in calculation"
          /\ ShowsError
          /\ ~ShowsReport
    /\ status_var # "Calculating..."

\* a calculation failed after its progress had reached 20
C16_FailedAfterProgress ==
  Calculated /\ run.progress = <<0, 20, 0>> /\ status_var = "Error in calculation"

(***************************************************************************)
(* C17                                                                     *)
(***************************************************************************)
\* format_time was applied to a number >= 0 and its divisions went through
SplitNonNegative ==
  /\ AppliedFormatTime
  /\ IsNumber(args)
  /\ Call("DecCmp", <<args, DecInt(0)>>) >= 0
  /\ PartsComputed(ret.parts)

\* the components add up to the seconds given, and each is in its range
SplitsExactly ==
  /\ Call("DecCmpMag", <<Call("DurationTotal", <<ret.parts>>), args>>) = 0
  /\ Call("DurationInRange", <<ret.parts>>)

OtherUnit == args.c # c_units[1]

\* C18: whichever constant of c_units is passed, time_dilation_factor and
\* time_dilation return what they return with c in m/s
C18_UnitOfCIndifferent ==
  /\ (AppliedFactor /\ OtherUnit) =>
       /\ ret.v = Call("time_dilation_factor", <<args.v, c_units[1]>>)
       /\ ret.w = Call("time_dilation_factor", <<args.w, c_units[1]>>)
  /\ (AppliedDilation /\ OtherUnit) =>
       /\ ret.v = Call("time_dilation", <<args.T, args.v, c_units[1]>>)
       /\ ret.w = Call("time_dilation", <<args.T, args.w, c_units[1]>>)

\* time_dilation was applied with c in nm/s and returned a number
C18_AppliedInNanometres ==
  AppliedDilation /\ args.c = c_units[5] /\ IsNumber(ret.v)

====
